---- MODULE Spec2Model ----
(***************************************************************************)
(* generate-react-app: the template renderer (renderTemplate,              *)
(* renderFileName), the tree copier (copyTemplateFiles), the composer      *)
(* (copyTemplate) and the orchestrator (generateProject, create).          *)
(*                                                                         *)
(* A string is a sequence of characters; an identifier of a placeholder    *)
(* expression (PACKAGE_NAME, slug, ...) is one element of the sequence.    *)
(* A path is a sequence of names, relative to its root.                    *)
(***************************************************************************)
EXTENDS Naturals, Sequences, FiniteSets, TLC

VARIABLES
  renderIn,     \* a function called on its own: the input drawn
  renderOut,    \* a function called on its own: the result
  tplCommon,    \* the sibling "common" template root: a tree, or NoTree
  tplSpecific,  \* the specific template root: a tree, or NoTree
  fs,           \* the tree under targetPath; NoTree while it does not exist
  projectOptions, \* the GenerateProjectOptions of the run
  pc,           \* where the run is
  stack,        \* the active calls of copyTemplateFiles, innermost last
  log,          \* what the run has done so far, in order
  error,        \* the error thrown and not caught yet, or NoError
  argv,         \* the parsed command line
  answers,      \* the answers of the prompts shown so far
  asked,        \* the questions shown so far, in order
  child,        \* the command of the child process that runs, or NoChild
  printed,      \* the messages printed so far
  exit          \* <<>> while the process runs, then <<its exit code>>

renderVars == <<renderIn, renderOut>>

copyVars ==
  <<tplCommon, tplSpecific, fs, projectOptions, pc, stack, log, error>>

createVars == <<argv, answers, asked, child, printed, exit>>

vars ==
  <<renderIn, renderOut, tplCommon, tplSpecific, fs, projectOptions, pc, stack,
    log, error, argv, answers, asked, child, printed, exit>>

(***************************************************************************)
(* Strings.                                                                *)
(***************************************************************************)

\* The JavaScript value undefined, as a value no string of the model equals.
UNDEFINED == <<"#undefined">>

StartsWith(s, p) == Len(s) >= Len(p) /\ SubSeq(s, 1, Len(p)) = p

Drop(s, n) == SubSeq(s, n + 1, Len(s))

\* s.includes(p)
RECURSIVE Includes(_, _)
Includes(s, p) ==
  IF Len(s) < Len(p) THEN FALSE
  ELSE StartsWith(s, p) \/ Includes(Tail(s), p)

RECURSIVE Flatten(_)
Flatten(ss) == IF ss = <<>> THEN <<>> ELSE Head(ss) \o Flatten(Tail(ss))

\* String(v): what JavaScript's string conversion gives.
JsString(v) ==
  IF v = UNDEFINED THEN <<"u", "n", "d", "e", "f", "i", "n", "e", "d">> ELSE v

\* v || "": undefined and the empty string are falsy.
OrEmpty(v) == IF v = UNDEFINED \/ v = <<>> THEN <<>> ELSE v

RECURSIVE StringsUpTo(_, _)
StringsUpTo(chars, n) ==
  IF n = 0 THEN {<<>>}
  ELSE LET shorter == StringsUpTo(chars, n - 1)
       IN  shorter \cup {Append(s, ch) : s \in shorter, ch \in chars}

(***************************************************************************)
(* ejs.render, as renderTemplate and renderFileName use it.                *)
(***************************************************************************)

\* The delimiter d of ejs is its default '%'.
EjsD == <<"%">>

\* The alternatives of the tag pattern, in the pattern's order.
EjsDelimiters(o, c) ==
  << o \o EjsD \o EjsD,
     EjsD \o EjsD \o c,
     o \o EjsD \o <<"=">>,
     o \o EjsD \o <<"-">>,
     o \o EjsD \o <<"_">>,
     o \o EjsD \o <<"#">>,
     o \o EjsD,
     EjsD \o c,
     <<"-">> \o EjsD \o c,
     <<"_">> \o EjsD \o c >>

\* The first alternative that matches at the head of str, or <<>>.
EjsMatchAt(str, o, c) ==
  LET ds == EjsDelimiters(o, c)
      hits == {i \in 1..Len(ds) : StartsWith(str, ds[i])}
  IN  IF hits = {} THEN <<>>
      ELSE ds[CHOOSE i \in hits : \A j \in hits : i <= j]

\* parseTemplateText: the template split into text and tag tokens.
RECURSIVE parseTemplateText(_, _, _, _)
parseTemplateText(str, lit, o, c) ==
  LET flush == IF lit = <<>> THEN <<>> ELSE <<lit>>
  IN  IF str = <<>> THEN flush
      ELSE LET m == EjsMatchAt(str, o, c)
           IN  IF m = <<>>
               THEN parseTemplateText(Tail(str), Append(lit, Head(str)), o, c)
               ELSE flush \o <<m>>
                      \o parseTemplateText(Drop(str, Len(m)), <<>>, o, c)

EscapeChar(ch) ==
  CASE ch = "&" -> <<"&", "a", "m", "p", ";">>
    [] ch = "<" -> <<"&", "l", "t", ";">>
    [] ch = ">" -> <<"&", "g", "t", ";">>
    [] ch = "\"" -> <<"&", "#", "3", "4", ";">>
    [] ch = "'" -> <<"&", "#", "3", "9", ";">>
    [] OTHER -> <<ch>>

\* escapeXML of ejs, the escapeFn of a <%= %> tag.
escapeXML(markup) ==
  IF markup = UNDEFINED THEN <<>>
  ELSE Flatten([i \in 1..Len(markup) |-> EscapeChar(markup[i])])

\* __append of a compiled template: undefined adds nothing.
EjsAppend(v) == IF v = UNDEFINED THEN <<>> ELSE v

\* The value of the expression of a tag under with(data): an identifier that
\* data binds; any other expression of the model's alphabet throws.
EjsEval(expr, data) ==
  IF Len(expr) = 1 /\ expr[1] \in DOMAIN data
  THEN [ok |-> TRUE, val |-> data[expr[1]]]
  ELSE [ok |-> FALSE, val |-> UNDEFINED]

EjsIsOpen(tok, o) ==
  StartsWith(tok, o \o EjsD) /\ ~StartsWith(tok, o \o EjsD \o EjsD)

EjsIsClose(tok, c) ==
  tok \in {EjsD \o c, <<"-">> \o EjsD \o c, <<"_">> \o EjsD \o c}

\* generateSource and scanLine over the tokens from index i on, then the run
\* of the compiled function: the output, or ok = FALSE when ejs throws.
RECURSIVE EjsScan(_, _, _, _, _, _, _)
EjsScan(toks, i, mode, out, data, o, c) ==
  IF i > Len(toks) THEN [ok |-> TRUE, out |-> out]
  ELSE
    LET line == toks[i]
        next(m, more) == EjsScan(toks, i + 1, m, out \o more, data, o, c)
        fail == [ok |-> FALSE, out |-> <<>>]
    IN
    IF EjsIsOpen(line, o)
       /\ ~(i + 2 <= Len(toks) /\ EjsIsClose(toks[i + 2], c))
    THEN fail
    ELSE
      CASE line \in {o \o EjsD, o \o EjsD \o <<"_">>} -> next("EVAL", <<>>)
        [] line = o \o EjsD \o <<"=">> -> next("ESCAPED", <<>>)
        [] line = o \o EjsD \o <<"-">> -> next("RAW", <<>>)
        [] line = o \o EjsD \o <<"#">> -> next("COMMENT", <<>>)
        [] line = o \o EjsD \o EjsD -> next("LITERAL", o \o EjsD)
        [] line = EjsD \o EjsD \o c -> next("LITERAL", EjsD \o c)
        [] EjsIsClose(line, c) ->
             next("none", IF mode = "LITERAL" THEN line ELSE <<>>)
        [] OTHER ->
             CASE mode = "EVAL" ->
                    IF EjsEval(line, data).ok THEN next(mode, <<>>) ELSE fail
               [] mode = "ESCAPED" ->
                    IF EjsEval(line, data).ok
                    THEN next(mode, EjsAppend(escapeXML(EjsEval(line, data).val)))
                    ELSE fail
               [] mode = "RAW" ->
                    IF EjsEval(line, data).ok
                    THEN next(mode, EjsAppend(EjsEval(line, data).val))
                    ELSE fail
               [] mode = "COMMENT" -> next(mode, <<>>)
               [] OTHER -> next(mode, line)

EjsRender(template, data, o, c) ==
  EjsScan(parseTemplateText(template, <<>>, o, c), 1, "none", <<>>, data, o, c)

(***************************************************************************)
(* The project-name predicate.                                             *)
(***************************************************************************)

ForbiddenNameCharsNoComma == {"<", ">", ":", ";", "?", "\"", "*", "|", "/", "\\"}

ForbiddenNameChars == {"<", ">", ":", ";", ",", "?", "\"", "*", "|", "/", "\\"}

validateProjectName(name) ==
  LET s == JsString(name)
  IN  s # <<>> /\ \A i \in 1..Len(s) : s[i] \notin ForbiddenNameChars

\* path.basename(p): the part after the last "/", trailing "/" ignored.
RECURSIVE Basename(_)
Basename(p) ==
  IF p = <<>> THEN <<>>
  ELSE IF p[Len(p)] = "/" THEN Basename(SubSeq(p, 1, Len(p) - 1))
  ELSE IF \E i \in 1..Len(p) : p[i] = "/"
  THEN LET last == CHOOSE i \in 1..Len(p) :
                     p[i] = "/" /\ \A j \in (i + 1)..Len(p) : p[j] # "/"
       IN  SubSeq(p, last + 1, Len(p))
  ELSE p

\* toLowerCase, on the letters of the model.
ToLowerCase(ch) ==
  CASE ch = "A" -> "a"
    [] ch = "B" -> "b"
    [] OTHER -> ch

\* [a-z0-9], on the characters of the model.
IsLowerAlnum(ch) == ch \in {"a", "b", "1"}

\* replace(/[^a-z0-9]+/g, "-"): each run of other characters becomes one "-".
RECURSIVE ReplaceRuns(_, _)
ReplaceRuns(str, inRun) ==
  IF str = <<>> THEN <<>>
  ELSE IF IsLowerAlnum(Head(str)) THEN <<Head(str)>> \o ReplaceRuns(Tail(str), FALSE)
  ELSE IF inRun THEN ReplaceRuns(Tail(str), TRUE)
  ELSE <<"-">> \o ReplaceRuns(Tail(str), TRUE)

\* replace(/^-+|-+$/g, ""): the hyphens at both ends are removed.
RECURSIVE TrimLeadingHyphens(_)
TrimLeadingHyphens(str) ==
  IF str # <<>> /\ Head(str) = "-" THEN TrimLeadingHyphens(Tail(str)) ELSE str

RECURSIVE TrimTrailingHyphens(_)
TrimTrailingHyphens(str) ==
  IF str # <<>> /\ str[Len(str)] = "-"
  THEN TrimTrailingHyphens(SubSeq(str, 1, Len(str) - 1))
  ELSE str

TrimHyphensLeadingOnly(str) == TrimLeadingHyphens(str)

TrimHyphens(str) == TrimTrailingHyphens(TrimLeadingHyphens(str))

directoryToProjectName(dir) ==
  TrimHyphens(ReplaceRuns([i \in 1..Len(dir) |-> ToLowerCase(dir[i])], FALSE))

(***************************************************************************)
(* The token renderer.                                                     *)
(***************************************************************************)

\* The object that String() turns into "[object Object]".
OptionsObject == <<"[object Object]">>

\* The data renderTemplate hands to ejs.
TemplateDataStringified(options) ==
  [PACKAGE_NAME |-> options.slug,
   DESCRIPTION |-> options.description,
   AUTHOR_NAME |-> JsString(options.authorName),
   AUTHOR_EMAIL |-> JsString(options.authorEmail),
   AUTHOR_URL |-> JsString(options.authorUrl),
   REPO_URL |-> JsString(options.repoUrl),
   PACKAGE_MANAGER |-> options.packageManager,
   options |-> OptionsObject]

TemplateData(options) ==
  [PACKAGE_NAME |-> options.slug,
   DESCRIPTION |-> options.description,
   AUTHOR_NAME |-> OrEmpty(options.authorName),
   AUTHOR_EMAIL |-> OrEmpty(options.authorEmail),
   AUTHOR_URL |-> OrEmpty(options.authorUrl),
   REPO_URL |-> OrEmpty(options.repoUrl),
   PACKAGE_MANAGER |-> options.packageManager,
   options |-> OptionsObject]

ContentOpen == <<"{", "{">>
ContentClose == <<"}", "}">>

renderTemplate(content, options) ==
  LET r == EjsRender(content, TemplateData(options), ContentOpen, ContentClose)
  IN  IF r.ok THEN [ok |-> TRUE, out |-> r.out, error |-> <<>>]
      ELSE [ok |-> FALSE, out |-> <<>>,
            error |-> <<"Failed to render template">>]

RECURSIVE StripSentinelAll(_)
StripSentinelAll(fileName) ==
  IF fileName # <<>> /\ Head(fileName) = "$"
  THEN StripSentinelAll(Tail(fileName)) ELSE fileName

\* fileName.replace(/^\$/, "")
StripSentinel(fileName) ==
  IF fileName # <<>> /\ Head(fileName) = "$" THEN Tail(fileName) ELSE fileName

NameOpen == <<"<">>
NameClose == <<">">>

renderFileName(fileName, options) ==
  LET r == EjsRender(StripSentinel(fileName), options, NameOpen, NameClose)
  IN  IF r.ok THEN [ok |-> TRUE, out |-> r.out, error |-> <<>>]
      ELSE [ok |-> FALSE, out |-> <<>>,
            error |-> <<"Failed to render file name: ">> \o fileName]

(***************************************************************************)
(* File trees. A tree maps each path below its root, and <<>> for the root *)
(* itself, to a node; the tree of a root that does not exist maps nothing. *)
(***************************************************************************)

DirNode == [kind |-> "dir", content |-> <<>>]

FileNode(content) == [kind |-> "file", content |-> content]

NoTree == [p \in {} |-> DirNode]

RootOnly == (<<>> :> DirNode)

existsSync(tree, p) == p \in DOMAIN tree

IsDir(tree, p) == p \in DOMAIN tree /\ tree[p].kind = "dir"

IsFile(tree, p) == p \in DOMAIN tree /\ tree[p].kind = "file"

Parent(p) == SubSeq(p, 1, Len(p) - 1)

\* The names readdirSync lists for the directory p.
readdirSync(tree, p) ==
  {q[Len(q)] : q \in {r \in DOMAIN tree : Len(r) = Len(p) + 1 /\ Parent(r) = p}}

\* path.join(base, name) for a name of one segment: an empty name and "."
\* add nothing.
PathJoin(base, name) ==
  IF name \in {<<>>, <<".">>} THEN base ELSE Append(base, name)

Files(tree) == {p \in DOMAIN tree : tree[p].kind = "file"}

NoError == <<>>

\* fs.mkdirSync(p, { recursive: true }): the tree after it, or the error.
mkdirSync(tree, p) ==
  IF IsFile(tree, p) THEN [ok |-> FALSE, tree |-> tree, error |-> <<"EEXIST">>]
  ELSE IF p # <<>> /\ IsFile(tree, Parent(p))
  THEN [ok |-> FALSE, tree |-> tree, error |-> <<"ENOTDIR">>]
  ELSE [ok |-> TRUE,
        tree |-> [q \in {SubSeq(p, 1, k) : k \in 0..Len(p)} \ DOMAIN tree
                    |-> DirNode] @@ tree,
        error |-> NoError]

\* fs.writeFileSync(p, content): the tree after it, or the error.
writeFileSync(tree, p, content) ==
  IF IsDir(tree, p) THEN [ok |-> FALSE, tree |-> tree, error |-> <<"EISDIR">>]
  ELSE IF p = <<>> \/ ~existsSync(tree, Parent(p))
  THEN [ok |-> FALSE, tree |-> tree, error |-> <<"ENOENT">>]
  ELSE IF IsFile(tree, Parent(p))
  THEN [ok |-> FALSE, tree |-> tree, error |-> <<"ENOTDIR">>]
  ELSE [ok |-> TRUE,
        tree |-> [q \in DOMAIN tree \cup {p} |->
                    IF q = p THEN FileNode(content) ELSE tree[q]],
        error |-> NoError]

(***************************************************************************)
(* The renderer on its own: an input is drawn, then rendered.              *)
(***************************************************************************)

MaxStrLen == 2

ValueChars == {"a", "&", "'", "<"}

FieldValues == {UNDEFINED} \cup StringsUpTo(ValueChars, MaxStrLen)

RenderedFields ==
  {"slug", "description", "authorName", "authorEmail", "authorUrl", "repoUrl",
   "packageManager"}

BaseOptions ==
  [targetPath |-> <<"target">>,
   slug |-> <<"a">>,
   description |-> <<"d">>,
   authorName |-> UNDEFINED,
   authorEmail |-> UNDEFINED,
   authorUrl |-> UNDEFINED,
   repoUrl |-> UNDEFINED,
   language |-> <<"typescript">>,
   bundler |-> <<"vite">>,
   packageManager |-> <<"npm">>]

RenderOptions ==
  {[BaseOptions EXCEPT ![f] = v] : f \in RenderedFields, v \in FieldValues}

Placeholders ==
  {"PACKAGE_NAME", "DESCRIPTION", "AUTHOR_NAME", "AUTHOR_EMAIL", "AUTHOR_URL",
   "REPO_URL", "PACKAGE_MANAGER"}

\* The field of the options a placeholder is bound to.
PlaceholderField(id) ==
  CASE id = "PACKAGE_NAME" -> "slug"
    [] id = "DESCRIPTION" -> "description"
    [] id = "AUTHOR_NAME" -> "authorName"
    [] id = "AUTHOR_EMAIL" -> "authorEmail"
    [] id = "AUTHOR_URL" -> "authorUrl"
    [] id = "REPO_URL" -> "repoUrl"
    [] id = "PACKAGE_MANAGER" -> "packageManager"

\* {{%=ID%}}, the placeholder of the templates, and {{%-ID%}}, its raw form.
Placeholder(id) == ContentOpen \o <<"%", "=", id, "%">> \o ContentClose

RawPlaceholder(id) == ContentOpen \o <<"%", "-", id, "%">> \o ContentClose

ContentInputs ==
  {Placeholder(id) : id \in Placeholders}
    \cup {RawPlaceholder(id) : id \in Placeholders}
    \cup {<<"x">>,
          <<"x">> \o Placeholder("PACKAGE_NAME") \o <<"-", "t">>,
          Placeholder("options"),
          Placeholder("NO_SUCH_NAME"),
          ContentOpen \o <<"%", "=", "PACKAGE_NAME">>,
          ContentOpen \o <<"%", "#", "x", "%">> \o ContentClose,
          <<"<", "%", "=", "slug", "%", ">">>}

NameInputs ==
  {<<"a">>, <<"$", "a">>, <<"$", "$", "a">>, <<"a", "$">>, <<"$">>,
   <<"$", ".", "g">>, <<".", "g">>,
   <<"<", "%", "=", "slug", "%", ">">>,
   <<"$", "<", "%", "=", "slug", "%", ">">>,
   <<"<", "%", "=", "slug">>,
   <<"a", "%", ">">>,
   <<"{", "{", "%", "=", "PACKAGE_NAME", "%", "}", "}">>}

NotRendered == [done |-> FALSE, ok |-> FALSE, out |-> <<>>, error |-> <<>>]

Rendered(r) == [done |-> TRUE, ok |-> r.ok, out |-> r.out, error |-> r.error]

NoChild == <<>>

NoArgv ==
  [projectName |-> UNDEFINED, slug |-> UNDEFINED, description |-> UNDEFINED,
   authorName |-> UNDEFINED, authorEmail |-> UNDEFINED,
   authorUrl |-> UNDEFINED, repoUrl |-> UNDEFINED, language |-> UNDEFINED,
   bundler |-> UNDEFINED, packageManager |-> UNDEFINED]

IdleCreate ==
  /\ argv = NoArgv
  /\ answers = NoArgv
  /\ asked = <<>>
  /\ child = NoChild
  /\ printed = <<>>
  /\ exit = <<>>

IdleCopy ==
  /\ tplCommon = NoTree
  /\ tplSpecific = NoTree
  /\ fs = NoTree
  /\ projectOptions = BaseOptions
  /\ pc = "render"
  /\ stack = <<>>
  /\ log = <<>>
  /\ error = NoError

InitRender ==
  /\ IdleCopy
  /\ IdleCreate
  /\ renderIn \in
       [kind : {"content"}, text : ContentInputs, options : RenderOptions]
         \cup [kind : {"name"}, text : NameInputs, options : RenderOptions]
  /\ renderOut = NotRendered

RenderContent ==
  /\ renderIn.kind = "content"
  /\ ~renderOut.done
  /\ renderOut' = Rendered(renderTemplate(renderIn.text, renderIn.options))
  /\ UNCHANGED <<renderIn, copyVars, createVars>>

RenderName ==
  /\ renderIn.kind = "name"
  /\ ~renderOut.done
  /\ renderOut' = Rendered(renderFileName(renderIn.text, renderIn.options))
  /\ UNCHANGED <<renderIn, copyVars, createVars>>

NextRender == RenderContent \/ RenderName

SpecRender == InitRender /\ [][NextRender]_vars

(***************************************************************************)
(* The tree copier and the composer.                                       *)
(***************************************************************************)

TreeOf(root) == IF root = "common" THEN tplCommon ELSE tplSpecific

Event(op, root, src, dst) == [op |-> op, root |-> root, src |-> src, dst |-> dst]

Frame(root, src, dst, todo) ==
  [root |-> root, src |-> src, dst |-> dst, todo |-> todo]

NoFrame == Frame("none", <<>>, <<>>, {})

\* The passes of copyTemplate, in the order it runs them.
PassRootsSpecificFirst == <<"specific", "common">>

PassRoots == <<"common", "specific">>

\* fs.writeFileSync(destPath, processedContent) of copyTemplateFiles.
WriteDestKeepExisting(tree, p, content) ==
  IF IsFile(tree, p) THEN [ok |-> TRUE, tree |-> tree, error |-> NoError]
  ELSE writeFileSync(tree, p, content)

WriteDestAlone(tree, p, content) ==
  writeFileSync([q \in {r \in DOMAIN tree : tree[r].kind = "dir"} |-> tree[q]],
                p, content)

WriteDest(tree, p, content) == writeFileSync(tree, p, content)

\* fs.mkdirSync(destPath, { recursive: true }) of copyTemplateFiles.
MakeDestDirFresh(tree, p) ==
  LET kept == {q \in DOMAIN tree : ~(Len(q) > Len(p) /\ SubSeq(q, 1, Len(p)) = p)}
  IN  mkdirSync([q \in kept |-> tree[q]], p)

MakeDestDir(tree, p) == mkdirSync(tree, p)

\* One turn of the loop of copyTemplateFiles, for the entry name of frame f:
\* the target tree after it, the call it makes on a directory, or the error.
copyEntry(tree, f, name, target, opts) ==
  LET sourcePath == Append(f.src, name)
      destName == renderFileName(name, opts)
      destPath == PathJoin(f.dst, destName.out)
      thrown(e) == [ok |-> FALSE, target |-> target, call |-> NoFrame,
                    error |-> e, op |-> "throw", dst |-> f.dst]
  IN  IF ~destName.ok THEN thrown(destName.error)
      ELSE IF tree[sourcePath].kind = "dir"
      THEN LET made == MakeDestDir(target, destPath)
           IN  IF ~made.ok THEN thrown(made.error)
               ELSE [ok |-> TRUE, target |-> made.tree,
                     call |-> Frame(f.root, sourcePath, destPath,
                                    readdirSync(tree, sourcePath)),
                     error |-> NoError, op |-> "mkdir", dst |-> destPath]
      ELSE LET processedContent == renderTemplate(tree[sourcePath].content, opts)
               written == WriteDest(target, destPath, processedContent.out)
           IN  IF ~processedContent.ok THEN thrown(processedContent.error)
               ELSE IF ~written.ok THEN thrown(written.error)
               ELSE [ok |-> TRUE, target |-> written.tree, call |-> NoFrame,
                     error |-> NoError, op |-> "write", dst |-> destPath]

Top == stack[Len(stack)]

\* copyTemplate reaches pass i: the common root is skipped when it does not
\* exist; readdirSync of a root that does not exist throws.
StartPass(i) ==
  /\ pc = IF i = 1 THEN "copyTemplate" ELSE "copyNext"
  /\ stack = <<>>
  /\ LET root == PassRoots[i]
         after == IF i = 1 THEN "copyNext" ELSE "copyReturned"
     IN  IF root = "common" /\ ~existsSync(tplCommon, <<>>)
         THEN /\ pc' = after
              /\ UNCHANGED <<stack, log, error>>
         ELSE IF ~existsSync(TreeOf(root), <<>>)
         THEN /\ pc' = "thrown"
              /\ error' = <<"ENOENT">>
              /\ log' = Append(log, Event("throw", root, <<>>, <<>>))
              /\ UNCHANGED stack
         ELSE /\ pc' = IF i = 1 THEN "copyFiles1" ELSE "copyFiles2"
              /\ stack' = <<Frame(root, <<>>, <<>>, readdirSync(TreeOf(root), <<>>))>>
              /\ log' = Append(log, Event("readdir", root, <<>>, <<>>))
              /\ UNCHANGED error
  /\ UNCHANGED <<renderVars, createVars, tplCommon, tplSpecific, fs,
                 projectOptions>>

InCopyFiles == pc \in {"copyFiles1", "copyFiles2"} /\ stack # <<>>

\* The next entry of the innermost call is copied.
CopyEntry ==
  /\ InCopyFiles
  /\ \E name \in Top.todo :
       LET f == Top
           r == copyEntry(TreeOf(f.root), f, name, fs, projectOptions)
           rest == [stack EXCEPT ![Len(stack)].todo = @ \ {name}]
       IN  /\ log' = Append(log, Event(r.op, f.root, Append(f.src, name), r.dst))
           /\ fs' = r.target
           /\ error' = r.error
           /\ IF ~r.ok THEN pc' = "thrown" /\ stack' = <<>>
              ELSE /\ pc' = pc
                   /\ stack' = IF r.call = NoFrame THEN rest
                                ELSE Append(rest, r.call)
  /\ UNCHANGED <<renderVars, createVars, tplCommon, tplSpecific, projectOptions>>

\* A file-system call of the loop fails (permissions, disk full).
CopyEntryFails ==
  /\ InCopyFiles
  /\ \E name \in Top.todo :
       log' = Append(log, Event("throw", Top.root, Append(Top.src, name), Top.dst))
  /\ error' = <<"EACCES">>
  /\ pc' = "thrown"
  /\ stack' = <<>>
  /\ UNCHANGED <<renderVars, createVars, tplCommon, tplSpecific, fs,
                 projectOptions>>

\* The innermost call of copyTemplateFiles has no entry left and returns.
CopyReturn ==
  /\ InCopyFiles
  /\ Top.todo = {}
  /\ stack' = SubSeq(stack, 1, Len(stack) - 1)
  /\ pc' = IF Len(stack) > 1 THEN pc
           ELSE IF pc = "copyFiles1" THEN "copyNext" ELSE "copyReturned"
  /\ UNCHANGED <<renderVars, createVars, tplCommon, tplSpecific, fs,
                 projectOptions, log, error>>

(***************************************************************************)
(* copyTemplate on its own, as the tests call it: into an empty target.    *)
(***************************************************************************)

MaxEntries == 3

TreeNames == {<<"a">>, <<"$", "a">>, <<"$", ".", "g">>}

TreeContents == {<<"x">>, Placeholder("PACKAGE_NAME")}

TreeNodes == {DirNode} \cup {FileNode(c) : c \in TreeContents}

\* The trees with one entry more than t.
ExtendTree(t) ==
  LET dirs == {q \in DOMAIN t : t[q].kind = "dir"}
      fresh == {q \in {Append(d, n) : d \in dirs, n \in TreeNames} :
                  q \notin DOMAIN t}
  IN  {(q :> node) @@ t : q \in fresh, node \in TreeNodes}

RECURSIVE TreesUpTo(_)
TreesUpTo(n) ==
  IF n = 0 THEN {RootOnly}
  ELSE LET smaller == TreesUpTo(n - 1)
       IN  smaller \cup UNION {ExtendTree(t) : t \in smaller}

Entries(t) == Cardinality(DOMAIN t \ {<<>>})

\* The pairs <<common, specific>> of MaxEntries entries in all; either root
\* may not exist.
TreePairs ==
  LET all == TreesUpTo(MaxEntries)
      exactly(k) == {t \in all : Entries(t) = k}
      upTo(k) == {NoTree} \cup {t \in all : Entries(t) <= k}
  IN  {<<NoTree, s>> : s \in upTo(MaxEntries)}
        \cup UNION {{<<c, s>> : c \in exactly(k), s \in upTo(MaxEntries - k)} :
                      k \in 0..MaxEntries}

\* Trees with an entry that does not render: a file whose content names a
\* variable that is not bound, and an entry whose name has a tag left open.
BrokenContent == Placeholder("NO_SUCH_NAME")

BrokenName == <<"<", "%", "=", "slug">>

BrokenTrees ==
  LET a == <<<<"a">>>>
      g == <<<<"$", ".", "g">>>>
      inA == <<<<"a">>, <<"$", ".", "g">>>>
      bad == <<BrokenName>>
  IN  {(g :> FileNode(BrokenContent)) @@ RootOnly,
       (a :> FileNode(<<"x">>)) @@ (g :> FileNode(BrokenContent)) @@ RootOnly,
       (a :> DirNode) @@ (inA :> FileNode(BrokenContent)) @@ RootOnly,
       (a :> FileNode(<<"x">>)) @@ (bad :> FileNode(<<"x">>)) @@ RootOnly,
       (a :> FileNode(<<"x">>)) @@ (bad :> DirNode) @@ RootOnly}

BrokenPairs ==
  {<<c, t>> :
     c \in {NoTree, (<<<<"$", ".", "g">>>> :> FileNode(<<"x">>)) @@ RootOnly},
     t \in BrokenTrees}
    \cup {<<c, RootOnly>> : c \in BrokenTrees}

CopyOptions == [BaseOptions EXCEPT !.slug = <<"a", "&">>]

IdleRender ==
  /\ renderIn = [kind |-> "none", text |-> <<>>, options |-> BaseOptions]
  /\ renderOut = NotRendered

InitCopy ==
  /\ IdleRender
  /\ IdleCreate
  /\ \E pair \in TreePairs \cup BrokenPairs :
       tplCommon = pair[1] /\ tplSpecific = pair[2]
  /\ fs = RootOnly
  /\ projectOptions = CopyOptions
  /\ pc = "copyTemplate"
  /\ stack = <<>>
  /\ log = <<>>
  /\ error = NoError

NextCopy ==
  \/ StartPass(1)
  \/ StartPass(2)
  \/ CopyEntry
  \/ CopyEntryFails
  \/ CopyReturn

SpecCopy == InitCopy /\ [][NextCopy]_vars

(***************************************************************************)
(* The questions of getQuestions and the check of the command line.        *)
(***************************************************************************)

\* The questions in the order getQuestions lists them, each under the name
\* its answer is stored at (yargs gives argv both spellings of a flag).
QuestionKeys ==
  <<"slug", "description", "authorName", "authorEmail", "authorUrl",
    "repoUrl", "language", "bundler", "packageManager">>

\* The values of the choices of a select question; {} for a text question.
Choices(key) ==
  CASE key = "language" -> {<<"javascript">>, <<"typescript">>}
    [] key = "bundler" -> {<<"vite">>, <<"webpack">>, <<"rollup">>}
    [] key = "packageManager" ->
         {<<"npm">>, <<"yarn">>, <<"pnpm">>, <<"bun">>}
    [] OTHER -> {}

IsSelect(key) == key \in {"language", "bundler", "packageManager"}

Whitespace == {" ", "\t", "\n", "\r"}

\* /^\S+@\S+$/.test(input)
EmailTest(input) ==
  /\ \A i \in 1..Len(input) : input[i] \notin Whitespace
  /\ \E i \in 2..(Len(input) - 1) : input[i] = "@"

\* /^https?:\/\//.test(input)
UrlTest(input) ==
  \/ StartsWith(input, <<"h", "t", "t", "p", ":", "/", "/">>)
  \/ StartsWith(input, <<"h", "t", "t", "p", "s", ":", "/", "/">>)

\* What a validate returns: Valid for true, else its message.
Valid == <<>>

\* question.validate(input); a question without validate counts as true.
validate(key, input) ==
  CASE key = "slug" ->
         IF validateProjectName(input) THEN Valid
         ELSE <<"Must be a valid project name">>
    [] key = "description" ->
         IF input = <<>> THEN Valid ELSE <<"Cannot be empty">>
    [] key = "authorEmail" ->
         IF input = <<>> \/ EmailTest(input) THEN Valid
         ELSE <<"Must be a valid email address if provided">>
    [] key \in {"authorUrl", "repoUrl"} ->
         IF input = <<>> \/ UrlTest(input) THEN Valid
         ELSE <<"Must be a valid URL if provided">>
    [] OTHER -> Valid

\* The valid of the loop over the entries of argv, for a value that is not
\* null: the validate of the question, then the guard on its choices.
ArgCheckValidateOnly(key, value) ==
  IF IsSelect(key) THEN Valid ELSE validate(key, JsString(value))

ArgCheck(key, value) ==
  LET valid == validate(key, JsString(value))
  IN  IF valid = Valid /\ IsSelect(key) /\ value \notin Choices(key)
      THEN <<"Supported values are - ">>
      ELSE valid

\* The questions prompts is given: a question is skipped when its flag is
\* not null and its validate does not return false, and no validate does.
Shown(args) ==
  SelectSeq(QuestionKeys, LAMBDA key : args[key] = UNDEFINED)

\* What a text question can be answered with.
TextInputs(key) ==
  CASE key = "slug" -> {<<>>, <<"a">>, <<"a", "<">>}
    [] key = "description" -> {<<>>, <<"d">>}
    [] key = "authorName" -> {<<>>, <<"n">>}
    [] key = "authorEmail" -> {<<>>, <<"e", "@", "x">>, <<"e">>}
    [] OTHER -> {<<>>, <<"h", "t", "t", "p", ":", "/", "/", "u">>, <<"u">>}

\* The initial value of a text question: for the slug, the name made from
\* the basename of the folder; none for the others (git has no user set).
Initial(key, args) ==
  IF key = "slug" THEN directoryToProjectName(Basename(args.projectName))
  ELSE <<>>

\* The value of a text question for what the user types: the initial value
\* when nothing is typed.
Entered(key, input, args) == IF input = <<>> THEN Initial(key, args) ELSE input

\* The answers a question accepts: prompts asks again until validate passes.
AcceptedUnchecked(key, args) ==
  IF IsSelect(key) THEN Choices(key)
  ELSE {Entered(key, input, args) : input \in TextInputs(key)}

Accepted(key, args) ==
  IF IsSelect(key) THEN Choices(key)
  ELSE {value \in {Entered(key, input, args) : input \in TextInputs(key)} :
          validate(key, value) = Valid}

\* { ...argv, ...answers }, as the options of generateProject.
MergedOptions(args, given, shown, folder) ==
  LET pick(key) ==
        IF \E i \in 1..Len(shown) : shown[i] = key THEN given[key]
        ELSE args[key]
  IN  [targetPath |-> folder,
       slug |-> pick("slug"),
       description |-> pick("description"),
       authorName |-> pick("authorName"),
       authorEmail |-> pick("authorEmail"),
       authorUrl |-> pick("authorUrl"),
       repoUrl |-> pick("repoUrl"),
       language |-> pick("language"),
       bundler |-> pick("bundler"),
       packageManager |-> pick("packageManager")]

\* path.join(process.cwd(), projectName)
Folder(projectName) == <<"cwd", "/">> \o projectName

(***************************************************************************)
(* The commands of installDependencies and initializeGit.                  *)
(***************************************************************************)

\* The command of installDependencies: its switch on packageManager.
InstallCommand(packageManager) ==
  IF packageManager \in {<<"yarn">>, <<"pnpm">>, <<"bun">>}
  THEN packageManager \o <<" ", "install">>
  ELSE <<"npm", " ", "install">>

\* The command a stage of create runs.
Command(stage) ==
  CASE stage = "isNpxPresent" -> <<"npx", " ", "--help">>
    [] stage = "installDependencies" ->
         InstallCommand(projectOptions.packageManager)
    [] stage = "gitInit" -> <<"git", " ", "init">>
    [] stage = "gitAdd" -> <<"git", " ", "add", " ", ".">>
    [] stage = "gitCommit" ->
         <<"git", " ", "commit", " ", "-m", " ", "\"Initial commit\"">>

\* The directory a stage of create runs its command in; isNpxPresent gives
\* runCommand none.
Cwd(stage) ==
  IF stage = "isNpxPresent" THEN UNDEFINED ELSE projectOptions.targetPath

\* The stage whose command runs next, after the one before it has settled.
SpawnStageGitFirst ==
  CASE pc = "copyReturned" -> "gitInit"
    [] OTHER -> pc

SpawnStage ==
  CASE pc = "copyReturned" -> "installDependencies"
    [] OTHER -> pc

(***************************************************************************)
(* create.                                                                 *)
(***************************************************************************)

\* process.exit(1) after the messages are printed.
ProcessExitZero(messages) ==
  /\ printed' = printed \o messages
  /\ exit' = <<0>>
  /\ pc' = "exited"

ProcessExit(messages) ==
  /\ printed' = printed \o messages
  /\ exit' = <<1>>
  /\ pc' = "exited"

\* validateAndGetProject(projectName), exists telling whether the folder
\* is there: what it returns, or the message it prints before process.exit(1).
validateAndGetProjectAnyOrder(projectName, exists) ==
  LET exits(message) == [exit |-> TRUE, message |-> message,
                         folder |-> <<>>, basename |-> <<>>]
  IN  IF projectName \in {UNDEFINED, <<>>}
      THEN exits(<<"Please specify the project name">>)
      ELSE IF ~validateProjectName(Basename(projectName))
      THEN exits(<<"Cannot create a project named">>)
      ELSE IF exists
      THEN exits(<<"A folder already exists">>)
      ELSE [exit |-> FALSE, message |-> <<>>, folder |-> Folder(projectName),
            basename |-> Basename(projectName)]

validateAndGetProject(projectName, exists) ==
  LET exits(message) == [exit |-> TRUE, message |-> message,
                         folder |-> <<>>, basename |-> <<>>]
  IN  IF projectName \in {UNDEFINED, <<>>}
      THEN exits(<<"Please specify the project name">>)
      ELSE IF exists
      THEN exits(<<"A folder already exists">>)
      ELSE IF ~validateProjectName(Basename(projectName))
      THEN exits(<<"Cannot create a project named">>)
      ELSE [exit |-> FALSE, message |-> <<>>, folder |-> Folder(projectName),
            basename |-> Basename(projectName)]

\* const { folder, basename } = validateAndGetProject(argv["project-name"])
ValidateAndGetProject ==
  /\ pc = "create"
  /\ LET got == validateAndGetProject(argv.projectName, existsSync(fs, <<>>))
     IN  IF got.exit THEN ProcessExit(<<got.message>>)
         ELSE pc' = "isNpxPresent" /\ UNCHANGED <<printed, exit>>
  /\ UNCHANGED <<renderVars, tplCommon, tplSpecific, fs, projectOptions, stack,
                 log, error, argv, answers, asked, child>>

\* runCommand spawns the command of the stage that is due.
Spawn ==
  /\ pc \in {"isNpxPresent", "copyReturned", "gitInit", "gitAdd", "gitCommit"}
  /\ child = NoChild
  /\ child' = Command(SpawnStage)
  /\ pc' = SpawnStage
  /\ log' = Append(log, Event("spawn", SpawnStage, Command(SpawnStage),
                             Cwd(SpawnStage)))
  /\ UNCHANGED <<renderVars, tplCommon, tplSpecific, fs, projectOptions, stack,
                 error, argv, answers, asked, printed, exit>>

\* The JavaScript value null, as a value no string of the model equals.
NULL == <<"#null">>

\* An error with the code given, and an Error that has no code.
ErrorWithCode(code) == <<"#code", code>>

ErrorWithoutCode == <<"#error">>

\* e.code of an error that is not null.
ErrorCode(e) == IF e[1] = "#code" THEN <<e[2]>> ELSE UNDEFINED

\* What runCommand("npx", ["--help"]) rejects with.
NpxRejections ==
  {ErrorWithCode("ENOENT"), ErrorWithCode("EACCES"), ErrorWithoutCode, NULL}

\* The catch of isNpxPresent for the value runCommand rejected with: the
\* process exits, or the value is thrown again.
isNpxPresentSwallows(e) == "return"

isNpxPresent(e) ==
  IF e # NULL /\ ErrorCode(e) = <<"ENOENT">> THEN "exit" ELSE "throw"

\* What the fail handler of main and the catch of main print for the value
\* create rejected with.
FailMessages(e) ==
  IF e = NULL THEN <<<<"An unknown error occurred.">>>>
  ELSE <<<<"Fatal error:">>>>

\* The child of isNpxPresent settles: create goes on, the process exits, or
\* create rejects with what isNpxPresent threw and the process exits.
NpxSettles ==
  /\ pc = "isNpxPresent"
  /\ child # NoChild
  /\ child' = NoChild
  /\ \/ /\ log' = Append(log, Event("resolved", pc, child, <<>>))
        /\ pc' = "validateArgs"
        /\ UNCHANGED <<printed, exit, error>>
     \/ \E e \in NpxRejections :
          /\ log' = Append(log, Event("rejected", pc, child, e))
          /\ CASE isNpxPresent(e) = "exit" ->
                    /\ ProcessExit(<<<<"Couldn't find npx!">>>>)
                    /\ UNCHANGED error
               [] isNpxPresent(e) = "throw" ->
                    /\ error' = e
                    /\ ProcessExit(FailMessages(e))
               [] OTHER ->
                    /\ pc' = "validateArgs"
                    /\ UNCHANGED <<printed, exit, error>>
  /\ UNCHANGED <<renderVars, tplCommon, tplSpecific, fs, projectOptions, stack,
                 argv, answers, asked>>

\* getGitUser, getQuestions and the loop that validates the flags: the first
\* flag that is not valid, in the order of the command line, ends the run.
ValidateArgs ==
  /\ pc = "validateArgs"
  /\ LET invalid ==
           {i \in 1..Len(QuestionKeys) :
              /\ argv[QuestionKeys[i]] # UNDEFINED
              /\ ArgCheck(QuestionKeys[i], argv[QuestionKeys[i]]) # Valid}
     IN  IF invalid = {}
         THEN pc' = "prompts" /\ UNCHANGED <<printed, exit>>
         ELSE \E i \in invalid :
                ProcessExit(<<<<"Invalid value ", QuestionKeys[i]>>
                               \o ArgCheck(QuestionKeys[i], argv[QuestionKeys[i]])>>)
  /\ UNCHANGED <<renderVars, tplCommon, tplSpecific, fs, projectOptions, stack,
                 log, error, argv, answers, asked, child>>

\* The next question of prompts is shown and answered.
Prompt ==
  /\ pc = "prompts"
  /\ Len(asked) < Len(Shown(argv))
  /\ LET key == Shown(argv)[Len(asked) + 1]
     IN  \E answer \in Accepted(key, argv) :
           /\ answers' = [answers EXCEPT ![key] = answer]
           /\ asked' = Append(asked, key)
  /\ UNCHANGED <<renderVars, tplCommon, tplSpecific, fs, projectOptions, pc,
                 stack, log, error, argv, child, printed, exit>>

\* The user cancels the question shown: onCancel exits the process.
PromptCancel ==
  /\ pc = "prompts"
  /\ Len(asked) < Len(Shown(argv))
  /\ asked' = Append(asked, Shown(argv)[Len(asked) + 1])
  /\ log' = Append(log, Event("cancel", pc, <<asked'[Len(asked')]>>, <<>>))
  /\ ProcessExit(<<>>)
  /\ UNCHANGED <<renderVars, tplCommon, tplSpecific, fs, projectOptions, stack,
                 error, argv, answers, child>>

\* prompts returns: the flags and the answers become the options, and the
\* spinner starts.
PromptsReturn ==
  /\ pc = "prompts"
  /\ Len(asked) = Len(Shown(argv))
  /\ projectOptions' =
       MergedOptions(argv, answers, asked, Folder(argv.projectName))
  /\ pc' = "generateProject"
  /\ UNCHANGED <<renderVars, tplCommon, tplSpecific, fs, stack, log, error,
                 argv, answers, asked, child, printed, exit>>

\* The catalog the tool ships: the trees at templates/common and at
\* templates/<language>-<bundler>, either of which may be missing.
CatalogCommon == (<<<<"$", ".", "g">>>> :> FileNode(<<"x">>)) @@ RootOnly

CatalogSpecific ==
  (<<<<"a">>>> :> FileNode(Placeholder("PACKAGE_NAME"))) @@ RootOnly

Catalogs ==
  {<<c, t>> : c \in {NoTree, CatalogCommon}, t \in {NoTree, CatalogSpecific}}

\* generateProject up to its call of copyTemplate. The catalog is looked at
\* from here on; argv and the answers are not read again.
GenerateProject ==
  /\ pc = "generateProject"
  /\ LET made == mkdirSync(fs, <<>>)
     IN  /\ fs' = made.tree
         /\ error' = made.error
         /\ pc' = IF made.ok THEN "copyTemplate" ELSE "thrown"
         /\ log' = Append(log, Event(IF made.ok THEN "mkdir" ELSE "throw",
                                      "target", <<>>, <<>>))
  /\ \E catalog \in Catalogs :
       tplCommon' = catalog[1] /\ tplSpecific' = catalog[2]
  /\ argv' = NoArgv
  /\ answers' = NoArgv
  /\ asked' = <<>>
  /\ UNCHANGED <<renderVars, projectOptions, stack, child, printed, exit>>

\* mkdirSync of generateProject fails (permissions, disk full).
GenerateProjectFails ==
  /\ pc = "generateProject"
  /\ error' = <<"EACCES">>
  /\ pc' = "thrown"
  /\ log' = Append(log, Event("throw", "target", <<>>, <<>>))
  /\ argv' = NoArgv
  /\ answers' = NoArgv
  /\ asked' = <<>>
  /\ UNCHANGED <<renderVars, tplCommon, tplSpecific, fs, projectOptions, stack,
                 child, printed, exit>>

\* Where create goes when the command of installDependencies has settled:
\* the rejection of the awaited call is thrown into the try of create.
AfterInstallIgnored(outcome) == "gitInit"

AfterInstall(outcome) == IF outcome = "resolved" THEN "gitInit" ELSE "thrown"

\* The child of installDependencies settles.
InstallSettles ==
  /\ pc = "installDependencies"
  /\ child # NoChild
  /\ child' = NoChild
  /\ \E outcome \in {"resolved", "rejected"} :
       /\ log' = Append(log, Event(outcome, pc, child, <<>>))
       /\ pc' = AfterInstall(outcome)
       /\ IF pc' = "thrown"
          THEN error' = child \o <<" failed with code ">>
          ELSE UNCHANGED error
  /\ UNCHANGED <<renderVars, tplCommon, tplSpecific, fs, projectOptions, stack,
                 argv, answers, asked, printed, exit>>

\* The stage of initializeGit after a stage whose command has succeeded.
AfterGitSkipsAdd(stage) ==
  CASE stage = "gitInit" -> "gitCommit"
    [] stage = "gitAdd" -> "gitCommit"
    [] stage = "gitCommit" -> "gitDone"

AfterGit(stage) ==
  CASE stage = "gitInit" -> "gitAdd"
    [] stage = "gitAdd" -> "gitCommit"
    [] stage = "gitCommit" -> "gitDone"

\* Where create goes when a command of initializeGit has settled: the next
\* command is due, or the catch of initializeGit has the function return.
InitializeGitRethrows(stage, outcome) ==
  IF outcome = "resolved" THEN AfterGit(stage) ELSE "thrown"

InitializeGit(stage, outcome) ==
  IF outcome = "resolved" THEN AfterGit(stage) ELSE "gitDone"

\* The child of a command of initializeGit settles; the catch of
\* initializeGit warns.
GitSettles ==
  /\ pc \in {"gitInit", "gitAdd", "gitCommit"}
  /\ child # NoChild
  /\ child' = NoChild
  /\ \E outcome \in {"resolved", "rejected"} :
       /\ log' = Append(log, Event(outcome, pc, child, <<>>))
       /\ pc' = InitializeGit(pc, outcome)
       /\ IF outcome = "resolved"
          THEN UNCHANGED printed
          ELSE printed' =
                 Append(printed, <<"Warning: Git initialization failed">>)
  /\ UNCHANGED <<renderVars, tplCommon, tplSpecific, fs, projectOptions, stack,
                 error, argv, answers, asked, exit>>

\* What create prints when initializeGit has returned.
SuccessMessagesNone == <<>>

SuccessMessages ==
  <<<<"Template generated successfully!">>, <<"Next steps:">>>>

\* initializeGit has returned: the success and the next steps are printed,
\* and create returns.
Succeed ==
  /\ pc = "gitDone"
  /\ printed' = printed \o SuccessMessages
  /\ pc' = "done"
  /\ exit' = <<0>>
  /\ UNCHANGED <<renderVars, tplCommon, tplSpecific, fs, projectOptions, stack,
                 log, error, argv, answers, asked, child>>

\* What the catch of create prints for the error e.
CatchMessagesSilent(e) == <<>>

CatchMessages(e) == <<<<"Failed to generate template">>, <<"Error:">> \o e>>

\* The catch of create: the failure is printed and the process exits.
Catch ==
  /\ pc = "thrown"
  /\ ProcessExit(CatchMessages(error))
  /\ UNCHANGED <<renderVars, tplCommon, tplSpecific, fs, projectOptions, stack,
                 log, error, argv, answers, asked, child>>

(***************************************************************************)
(* A run of the tool.                                                      *)
(***************************************************************************)

\* The most flags of a command line that are not valid.
MaxInvalidFlags == 1

ProjectNames == {UNDEFINED, <<"a">>, <<"a", "<">>, <<"x", "/", "_">>}

\* What a flag can be given as; UNDEFINED when it is not given.
ArgInputs(key) ==
  CASE key = "slug" -> {UNDEFINED, <<"a">>, <<"a", "<">>}
    [] key = "description" -> {UNDEFINED, <<>>, <<"d">>}
    [] key = "authorName" -> {UNDEFINED, <<"n">>}
    [] key = "authorEmail" -> {UNDEFINED, <<"e", "@", "x">>, <<"e">>}
    [] key = "language" -> {UNDEFINED, <<"typescript">>, <<"python">>}
    [] key = "bundler" -> {UNDEFINED, <<"rollup">>, <<"parcel">>}
    [] key = "packageManager" -> {UNDEFINED, <<"npm">>, <<"pip">>}
    [] OTHER -> {UNDEFINED, <<"h", "t", "t", "p", ":", "/", "/", "u">>, <<"u">>}

InvalidFlags(args) ==
  {i \in 1..Len(QuestionKeys) :
     /\ args[QuestionKeys[i]] # UNDEFINED
     /\ ArgCheck(QuestionKeys[i], args[QuestionKeys[i]]) # Valid}

CommandLines ==
  {args \in [projectName : ProjectNames,
              slug : ArgInputs("slug"),
              description : ArgInputs("description"),
              authorName : ArgInputs("authorName"),
              authorEmail : ArgInputs("authorEmail"),
              authorUrl : ArgInputs("authorUrl"),
              repoUrl : ArgInputs("repoUrl"),
              language : ArgInputs("language"),
              bundler : ArgInputs("bundler"),
              packageManager : ArgInputs("packageManager")] :
     Cardinality(InvalidFlags(args)) <= MaxInvalidFlags}

Init ==
  /\ IdleRender
  /\ argv \in CommandLines
  /\ answers = NoArgv
  /\ asked = <<>>
  /\ child = NoChild
  /\ printed = <<>>
  /\ exit = <<>>
  /\ tplCommon = NoTree
  /\ tplSpecific = NoTree
  /\ fs \in {NoTree, RootOnly}
  /\ projectOptions = BaseOptions
  /\ pc = "create"
  /\ stack = <<>>
  /\ log = <<>>
  /\ error = NoError

Next ==
  \/ ValidateAndGetProject
  \/ Spawn
  \/ NpxSettles
  \/ ValidateArgs
  \/ Prompt
  \/ PromptCancel
  \/ PromptsReturn
  \/ GenerateProject
  \/ GenerateProjectFails
  \/ StartPass(1)
  \/ StartPass(2)
  \/ CopyEntryFails
  \/ CopyEntry
  \/ CopyReturn
  \/ InstallSettles
  \/ GitSettles
  \/ Succeed
  \/ Catch

Spec == Init /\ [][Next]_vars

(***************************************************************************)
(* The functions of project-manager.ts on their own.                       *)
(***************************************************************************)

\* The longest name made of any character of the model, and the longest
\* made of letters, digits and separators only.
MaxNameLen == 2

MaxDirLen == 4

NameChars ==
  {"<", ">", ":", ";", ",", "?", "\"", "*", "|", "/", "\\",
   "a", "A", "1", "-", "_", " ", "é"}

DirChars == {"a", "B", "1", "-", "_"}

Names == StringsUpTo(NameChars, MaxNameLen) \cup StringsUpTo(DirChars, MaxDirLen)

InitNames ==
  /\ IdleCopy
  /\ IdleCreate
  /\ renderIn \in
       [kind : {"validateProjectName", "directoryToProjectName"},
        text : Names, exists : {FALSE}]
         \cup [kind : {"validateAndGetProject"},
               text : Names \cup {UNDEFINED}, exists : BOOLEAN]
  /\ renderOut = NotRendered

CallValidateProjectName ==
  /\ renderIn.kind = "validateProjectName"
  /\ ~renderOut.done
  /\ renderOut' = [done |-> TRUE, ok |-> TRUE,
                   out |-> validateProjectName(renderIn.text), error |-> <<>>]
  /\ UNCHANGED <<renderIn, copyVars, createVars>>

CallDirectoryToProjectName ==
  /\ renderIn.kind = "directoryToProjectName"
  /\ ~renderOut.done
  /\ renderOut' = [done |-> TRUE, ok |-> TRUE,
                   out |-> directoryToProjectName(renderIn.text), error |-> <<>>]
  /\ UNCHANGED <<renderIn, copyVars, createVars>>

CallValidateAndGetProject ==
  /\ renderIn.kind = "validateAndGetProject"
  /\ ~renderOut.done
  /\ LET got == validateAndGetProject(renderIn.text, renderIn.exists)
     IN  renderOut' = [done |-> TRUE, ok |-> ~got.exit,
                       out |-> [folder |-> got.folder, basename |-> got.basename],
                       error |-> got.message]
  /\ UNCHANGED <<renderIn, copyVars, createVars>>

NextNames ==
  \/ CallValidateProjectName
  \/ CallDirectoryToProjectName
  \/ CallValidateAndGetProject

SpecNames == InitNames /\ [][NextNames]_vars

(***************************************************************************)
(* A run of the tool while another process works in the same directory.   *)
(***************************************************************************)

\* Another process creates the folder of the project after create has looked
\* for it and before generateProject makes it: while prompts waits for the
\* user, the longest wait of create.
FolderAppears ==
  /\ pc = "prompts"
  /\ ~existsSync(fs, <<>>)
  /\ fs' = RootOnly
  /\ log' = Append(log, Event("appear", "environment", <<>>, <<>>))
  /\ UNCHANGED <<renderVars, tplCommon, tplSpecific, projectOptions, pc, stack,
                 error, createVars>>

NextShared == Next \/ FolderAppears

SpecShared == Init /\ [][NextShared]_vars

(***************************************************************************)
(* Properties of the token renderer, under SpecRender.                     *)
(***************************************************************************)

RenderedContent(text) ==
  renderOut.done /\ renderIn.kind = "content" /\ renderIn.text = text

\* C6: for every options whose slug passes validateProjectName, a file whose
\* content is exactly the package-name placeholder renders to the slug,
\* character for character.
C6_SlugVerbatim ==
  (/\ RenderedContent(Placeholder("PACKAGE_NAME"))
   /\ renderIn.options.slug # UNDEFINED
   /\ validateProjectName(renderIn.options.slug))
    => renderOut.ok /\ renderOut.out = renderIn.options.slug

\* C7: each of the seven placeholders renders to a string for every options;
\* a placeholder whose field is unset or empty renders to the empty string,
\* and no placeholder of an unset field renders to the text "undefined".
C7_RenderTotal ==
  \A id \in Placeholders :
    RenderedContent(Placeholder(id)) =>
      LET value == renderIn.options[PlaceholderField(id)]
      IN  /\ renderOut.ok
          /\ renderOut.error = <<>>
          /\ value \in {UNDEFINED, <<>>} => renderOut.out = <<>>
          /\ value = UNDEFINED => renderOut.out # JsString(UNDEFINED)

\* C7 happens: the description placeholder was rendered with no description.
C7_Witness ==
  /\ RenderedContent(Placeholder("DESCRIPTION"))
  /\ renderIn.options.description = UNDEFINED
  /\ renderOut.ok
  /\ renderOut.out = <<>>

\* A name has placeholder syntax when a tag delimiter of the name renderer
\* starts somewhere in it.
HasPlaceholderSyntax(name) ==
  \E i \in 1..Len(name) : EjsMatchAt(Drop(name, i - 1), NameOpen, NameClose) # <<>>

RenderedName == renderOut.done /\ renderIn.kind = "name"

\* C8: an entry named "$" followed by a remainder R with no placeholder
\* syntax gets the name R, only the one leading "$" being removed; an entry
\* whose name does not start with "$" keeps its name.
C8_SentinelStripped ==
  (RenderedName /\ ~HasPlaceholderSyntax(renderIn.text)) =>
    /\ renderOut.ok
    /\ renderOut.out = IF StartsWith(renderIn.text, <<"$">>)
                       THEN Drop(renderIn.text, 1)
                       ELSE renderIn.text

\* C8 happens: "$$a" was rendered, and "$a" came out.
C8_Witness ==
  /\ RenderedName
  /\ renderIn.text = <<"$", "$", "a">>
  /\ renderOut.out = <<"$", "a">>

(***************************************************************************)
(* Properties of copyTemplate, under SpecCopy.                             *)
(***************************************************************************)

\* The path in the target that the entry at path p of a template tree is
\* copied to: each name rendered, and joined to its parent's.
RECURSIVE DestPathOf(_)
DestPathOf(p) ==
  IF p = <<>> THEN <<>>
  ELSE PathJoin(DestPathOf(Parent(p)),
                renderFileName(p[Len(p)], projectOptions).out)

\* The content the file at path p of a template tree is rendered to.
RenderedContentOf(tree, p) == renderTemplate(tree[p].content, projectOptions).out

\* The files of a template root that render to the path q of the target.
FilesAt(tree, q) == {p \in Files(tree) : DestPathOf(p) = q}

OverriddenPaths ==
  {q \in {DestPathOf(p) : p \in Files(tplCommon)} : FilesAt(tplSpecific, q) # {}}

\* C1: when copyTemplate has returned, every path that a file of the common
\* tree and a file of the specific tree both render to holds the rendered
\* content of the specific file, in whatever order the entries were read.
C1_OverridePrecedence ==
  pc = "copyReturned" =>
    \A q \in OverriddenPaths :
      /\ IsFile(fs, q)
      /\ \E p \in FilesAt(tplSpecific, q) :
           fs[q].content = RenderedContentOf(tplSpecific, p)

\* C1 happens: a common file and a specific file that render differently
\* were copied to one path, under names that differ.
C1_Witness ==
  /\ pc = "copyReturned"
  /\ \E q \in OverriddenPaths :
       \E c \in FilesAt(tplCommon, q), p \in FilesAt(tplSpecific, q) :
         /\ c # p
         /\ RenderedContentOf(tplCommon, c) # RenderedContentOf(tplSpecific, p)
         /\ fs[q].content = RenderedContentOf(tplSpecific, p)

EventsOf(root) == {i \in 1..Len(log) : log[i].root = root}

\* C9: a common root that does not exist is passed over with no error, and
\* the specific tree is then copied completely; a common root that exists
\* is copied to completion before the first entry of the specific tree is
\* read or written.
C9_CommonFirst ==
  /\ tplCommon = NoTree =>
       /\ EventsOf("common") = {}
       /\ pc # "copyFiles1"
       /\ pc = "copyReturned" =>
            \A p \in DOMAIN tplSpecific :
              /\ existsSync(fs, DestPathOf(p))
              /\ IsFile(tplSpecific, p) =>
                   /\ IsFile(fs, DestPathOf(p))
                   /\ \E r \in FilesAt(tplSpecific, DestPathOf(p)) :
                        fs[DestPathOf(p)].content = RenderedContentOf(tplSpecific, r)
  /\ \A i \in EventsOf("specific"), j \in EventsOf("common") : j < i
  /\ EventsOf("specific") # {} =>
       /\ tplCommon # NoTree =>
            Cardinality(EventsOf("common")) = 1 + Entries(tplCommon)
       /\ \A p \in DOMAIN tplCommon : existsSync(fs, DestPathOf(p))

\* C9 happens: both roots exist and have entries, and both were copied.
C9_Witness ==
  /\ pc = "copyReturned"
  /\ Cardinality(EventsOf("common")) > 1
  /\ Cardinality(EventsOf("specific")) > 1

TemplateFiles ==
  {<<"common", p>> : p \in Files(tplCommon)}
    \cup {<<"specific", p>> : p \in Files(tplSpecific)}

LogOps(ops) == {i \in 1..Len(log) : log[i].op \in ops}

StageEvents(op, stage) ==
  {i \in 1..Len(log) : log[i].op = op /\ log[i].root = stage}

\* readdirSync of the specific root has thrown: the root does not exist.
SpecificRootMissing ==
  /\ tplSpecific = NoTree
  /\ log # <<>>
  /\ log[Len(log)] = Event("throw", "specific", <<>>, <<>>)

\* C2: when the specific root does not exist, generateProject fails before
\* any file or directory of the target has been created, also when the
\* common root exists and has files.
C2_FailsBeforeAnyWrite == SpecificRootMissing => fs = NoTree

BeforeGenerate == {"create", "isNpxPresent", "validateArgs", "prompts",
                   "generateProject"}

GitStages == {"gitInit", "gitAdd", "gitCommit"}

\* C3: the target is not touched before the prompts have all been answered;
\* installDependencies starts only after the copy has completed, and no
\* file-system call of the copy follows its start; initializeGit starts only
\* after installDependencies has succeeded.
C3_StageOrder ==
  /\ pc \in BeforeGenerate =>
       /\ fs \in {NoTree, RootOnly}
       /\ LogOps({"mkdir", "write", "readdir", "throw"}) = {}
       /\ \A i \in 1..Len(log) : log[i].root = "isNpxPresent"
  /\ pc = "generateProject" => Len(asked) = Len(Shown(argv))
  /\ \A i \in StageEvents("spawn", "installDependencies") :
       /\ \A j \in LogOps({"mkdir", "write", "readdir"}) : j < i
       /\ LogOps({"throw"}) = {}
       /\ stack = <<>>
       /\ Files(fs) = {DestPathOf(f[2]) : f \in TemplateFiles}
  /\ \A i \in 1..Len(log) :
       (log[i].op = "spawn" /\ log[i].root \in GitStages) =>
         \E j \in StageEvents("resolved", "installDependencies") : j < i

\* C3 happens: a run went through every stage and succeeded, with files of
\* both roots copied.
C3_Witness ==
  /\ pc = "done"
  /\ exit = <<0>>
  /\ Cardinality(Files(fs)) = 2
  /\ StageEvents("resolved", "gitCommit") # {}

\* C4: when generateProject or copyTemplate has failed, neither
\* installDependencies nor initializeGit is started, and the process exits
\* with code 1 after "Failed to generate template" and the message of the
\* error have been printed.
C4_FailureAborts ==
  LogOps({"throw"}) # {} =>
    /\ LogOps({"spawn"}) = StageEvents("spawn", "isNpxPresent")
    /\ pc \in {"thrown", "exited"}
    /\ error # NoError
    /\ pc = "exited" =>
         /\ exit = <<1>>
         /\ printed = <<<<"Failed to generate template">>, <<"Error:">> \o error>>

\* C4 happens: the copy failed after a file was written, and the process
\* has exited.
C4_Witness ==
  /\ pc = "exited"
  /\ LogOps({"throw"}) # {}
  /\ Files(fs) # {}
  /\ exit = <<1>>

\* The command line of the README: the nine options, each well formed.
ReadmeCommandLine ==
  [projectName |-> <<"a">>,
   slug |-> <<"a">>,
   description |-> <<"d">>,
   authorName |-> <<"n">>,
   authorEmail |-> <<"e", "@", "x">>,
   authorUrl |-> <<"h", "t", "t", "p", ":", "/", "/", "u">>,
   repoUrl |-> <<"h", "t", "t", "p", ":", "/", "/", "u">>,
   language |-> <<"typescript">>,
   bundler |-> <<"rollup">>,
   packageManager |-> <<"npm">>]

Rejected ==
  \E i \in 1..Len(printed) :
    printed[i] # <<>> /\ Head(printed[i]) = "Invalid value "

\* C5: the nine options given on the command line with well-formed values,
\* the description not empty, are accepted: create does not reject them.
C5_AllFlagsAccepted == argv = ReadmeCommandLine => ~Rejected

(***************************************************************************)
(* Properties of create next to another process, under SpecShared.         *)
(***************************************************************************)

\* C11: when generateProject makes the folder of the project and copies into
\* it, the folder did not exist before: no folder that appeared after the
\* check of validateAndGetProject is copied into.
C11_TargetIsFresh ==
  \A i \in StageEvents("mkdir", "target") :
    \A j \in 1..Len(log) : log[j].op = "appear" => i < j

(***************************************************************************)
(* Properties of the functions of project-manager.ts, under SpecNames.     *)
(***************************************************************************)

Called(kind) == renderOut.done /\ renderIn.kind = kind

\* C17: validateAndGetProject returns the folder, cwd joined with the name,
\* and the basename, the last segment of the name, exactly when the name is
\* not empty, the folder does not exist and the basename is a valid project
\* name; otherwise it exits after the message of the first check that fails,
\* in the order: empty name, existing folder, invalid basename.
C17_ValidateAndGetProject ==
  Called("validateAndGetProject") =>
    LET name == renderIn.text
        given == name \notin {UNDEFINED, <<>>}
        valid == validateProjectName(Basename(name))
    IN  /\ renderOut.ok <=> (given /\ ~renderIn.exists /\ valid)
        /\ renderOut.ok =>
             /\ renderOut.out = [folder |-> <<"cwd", "/">> \o name,
                                 basename |-> Basename(name)]
             /\ renderOut.error = <<>>
        /\ ~renderOut.ok =>
             renderOut.error =
               IF ~given THEN <<"Please specify the project name">>
               ELSE IF renderIn.exists THEN <<"A folder already exists">>
               ELSE <<"Cannot create a project named">>

\* C17 happens: a name that ends in "/" was given, and its folder and its
\* last segment were returned.
C17_Witness ==
  /\ Called("validateAndGetProject")
  /\ renderIn.text = <<"a", "/">>
  /\ renderOut.ok
  /\ renderOut.out.basename = <<"a">>

\* C18: validateProjectName is true exactly for the names that are not empty
\* and have none of the characters < > : ; , ? " * | / \ in them.
C18_ValidNames ==
  Called("validateProjectName") =>
    (renderOut.out <=>
       /\ renderIn.text # <<>>
       /\ \A i \in 1..Len(renderIn.text) :
            renderIn.text[i] \notin
              {"<", ">", ":", ";", ",", "?", "\"", "*", "|", "/", "\\"})

\* C18 happens: a name with a letter that is not ASCII was found valid.
C18_Witness ==
  /\ Called("validateProjectName")
  /\ renderIn.text = <<"a", "é">>
  /\ renderOut.out = TRUE

\* Runs of lowercase letters and digits, with single hyphens between them.
Slugged(str) ==
  /\ \A i \in 1..Len(str) : IsLowerAlnum(str[i]) \/ str[i] = "-"
  /\ str # <<>> => str[1] # "-" /\ str[Len(str)] # "-"
  /\ \A i \in 1..(Len(str) - 1) : ~(str[i] = "-" /\ str[i + 1] = "-")

\* C19: what directoryToProjectName returns is empty or made of runs of
\* lowercase letters and digits with single hyphens between them; a result
\* that is not empty is a valid project name, and the function applied to
\* its result returns the result.
C19_DirectoryToProjectName ==
  Called("directoryToProjectName") =>
    /\ Slugged(renderOut.out)
    /\ renderOut.out # <<>> => validateProjectName(renderOut.out)
    /\ directoryToProjectName(renderOut.out) = renderOut.out

\* C19 happens: a name with an uppercase letter and a run of separators
\* between and after its letters was turned into a-b.
C19_Witness ==
  /\ Called("directoryToProjectName")
  /\ renderIn.text = <<"a", "_", "B", "-">>
  /\ renderOut.out = <<"a", "-", "b">>

(***************************************************************************)
(* Properties of the options create gives generateProject, under Spec.     *)
(***************************************************************************)

\* generateProject is about to be called with projectOptions.
Invoking == pc = "generateProject"

\* C12: whenever generateProject is invoked, the slug of its options is a
\* valid project name, be it the --slug flag or the answer of the prompt,
\* also when the initial value of the prompt is empty.
C12_SlugValid ==
  Invoking =>
    /\ projectOptions.slug # UNDEFINED
    /\ validateProjectName(projectOptions.slug)
    /\ projectOptions.slug =
         IF argv.slug # UNDEFINED THEN argv.slug ELSE answers.slug

\* C12 happens: the basename of the folder gives an empty initial value, no
\* --slug was given, and generateProject is invoked with the answer.
C12_Witness ==
  /\ Invoking
  /\ argv.slug = UNDEFINED
  /\ Initial("slug", argv) = <<>>
  /\ projectOptions.slug = <<"a">>

\* C13: whenever generateProject is invoked, slug, description, language,
\* bundler and packageManager are strings that are not empty.
C13_RequiredFieldsSet ==
  Invoking =>
    \A field \in {"slug", "description", "language", "bundler", "packageManager"} :
      projectOptions[field] \notin {UNDEFINED, <<>>}

\* A flag that its question does not accept: a value of a text flag that
\* validate refuses, or a value of a select flag that is not a choice.
RefusedFlags ==
  {key \in {"slug", "description", "authorEmail", "authorUrl", "repoUrl"} :
     argv[key] # UNDEFINED /\ validate(key, argv[key]) # Valid}
    \cup {key \in {"language"} :
            argv[key] \notin {UNDEFINED, <<"javascript">>, <<"typescript">>}}
    \cup {key \in {"bundler"} :
            argv[key] \notin {UNDEFINED, <<"webpack">>, <<"vite">>, <<"rollup">>}}
    \cup {key \in {"packageManager"} :
            argv[key] \notin {UNDEFINED, <<"npm">>, <<"yarn">>, <<"pnpm">>, <<"bun">>}}

\* C14: whenever generateProject is invoked, language, bundler and
\* packageManager are among their choices; a run with a flag that its
\* question does not accept shows no prompt and makes no directory, and once
\* it has reached the check of the flags it has printed "Invalid value" and
\* exited with code 1.
C14_ChoicesOnly ==
  /\ Invoking =>
       /\ projectOptions.language \in {<<"javascript">>, <<"typescript">>}
       /\ projectOptions.bundler \in {<<"webpack">>, <<"vite">>, <<"rollup">>}
       /\ projectOptions.packageManager \in
            {<<"npm">>, <<"yarn">>, <<"pnpm">>, <<"bun">>}
  /\ RefusedFlags # {} =>
       /\ pc \in {"create", "isNpxPresent", "validateArgs", "exited"}
       /\ asked = <<>>
       /\ LogOps({"mkdir", "write"}) = {}
       /\ (pc = "exited" /\ StageEvents("resolved", "isNpxPresent") # {}) =>
            /\ Rejected
            /\ Len(printed) = 1
            /\ exit = <<1>>

\* C14 happens: --language python was refused.
C14_Witness ==
  /\ argv.language = <<"python">>
  /\ pc = "exited"
  /\ Rejected
  /\ exit = <<1>>

GitSpawns ==
  {i \in 1..Len(log) : log[i].op = "spawn" /\ log[i].root \in GitStages}

\* C20: when the three commands of initializeGit have succeeded, they are the
\* only commands it has run, all in targetPath: git init, then git add . once
\* git init has succeeded, then git commit -m "Initial commit" once git add
\* has succeeded.
C20_GitSequence ==
  StageEvents("resolved", "gitCommit") # {} =>
    LET n == Len(log)
        init == <<"git", " ", "init">>
        add == <<"git", " ", "add", " ", ".">>
        commit == <<"git", " ", "commit", " ", "-m", " ", "\"Initial commit\"">>
    IN  /\ Cardinality(GitSpawns) = 3
        /\ n >= 6
        /\ SubSeq(log, n - 5, n) =
             << Event("spawn", "gitInit", init, projectOptions.targetPath),
                Event("resolved", "gitInit", init, <<>>),
                Event("spawn", "gitAdd", add, projectOptions.targetPath),
                Event("resolved", "gitAdd", add, <<>>),
                Event("spawn", "gitCommit", commit, projectOptions.targetPath),
                Event("resolved", "gitCommit", commit, <<>>) >>

\* C20 happens: the three commands have succeeded in the folder x/_.
C20_Witness ==
  /\ StageEvents("resolved", "gitCommit") # {}
  /\ projectOptions.targetPath = <<"cwd", "/", "x", "/", "_">>
  /\ pc = "gitDone"

(***************************************************************************)
(* Properties of a copy that fails, under SpecCopy.                        *)
(***************************************************************************)

\* The entry copyTemplateFiles was at when the error was thrown.
FailedAt == log[Len(log)]

Failed == pc = "thrown" /\ log # <<>> /\ FailedAt.op = "throw"

\* The copy failed on rendering the name, or the content, of an entry.
NameFailed ==
  /\ Failed
  /\ FailedAt.src # <<>>
  /\ ~renderFileName(FailedAt.src[Len(FailedAt.src)], projectOptions).ok
  /\ error # <<"EACCES">>

ContentFailed ==
  /\ Failed
  /\ FailedAt.src # <<>>
  /\ renderFileName(FailedAt.src[Len(FailedAt.src)], projectOptions).ok
  /\ IsFile(TreeOf(FailedAt.root), FailedAt.src)
  /\ ~renderTemplate(TreeOf(FailedAt.root)[FailedAt.src].content, projectOptions).ok
  /\ error # <<"EACCES">>

\* C15: the error of a rendering that failed names the entry: the file name
\* when the name did not render, the file when its content did not render.
C15_RenderErrorNamesEntry ==
  /\ NameFailed => Includes(error, FailedAt.src[Len(FailedAt.src)])
  /\ ContentFailed => Includes(error, FailedAt.src[Len(FailedAt.src)])

Writes == {i \in 1..Len(log) : log[i].op = "write"}

LastWrite(q) ==
  CHOOSE i \in Writes : log[i].dst = q /\ \A j \in Writes : log[j].dst = q => j <= i

\* C16: when the copy has failed, the error is with the caller and nothing
\* runs on; the files of the target are those written before the failing
\* entry, each with the rendered content of the last file written to it; the
\* directories are those made before it.
C16_NoRollback ==
  Failed =>
    /\ error # NoError
    /\ stack = <<>>
    /\ Files(fs) = {log[i].dst : i \in Writes}
    /\ \A q \in Files(fs) :
         fs[q].content =
           RenderedContentOf(TreeOf(log[LastWrite(q)].root), log[LastWrite(q)].src)
    /\ {q \in DOMAIN fs : IsDir(fs, q)} =
         {<<>>} \cup {log[i].dst : i \in {j \in 1..Len(log) : log[j].op = "mkdir"}}

\* C16 happens: the content of a file of the specific tree did not render
\* after a file of the common tree and a file of the specific tree had been
\* written, and both are still there.
C16_Witness ==
  /\ ContentFailed
  /\ FailedAt.root = "specific"
  /\ Cardinality(EventsOf("common") \cap Writes) = 1
  /\ Cardinality(EventsOf("specific") \cap Writes) = 1
  /\ Cardinality(Files(fs)) = 2

(***************************************************************************)
(* C21: initializeGit never rejects.                                       *)
(***************************************************************************)

GitRejections ==
  {i \in 1..Len(log) : log[i].op = "rejected" /\ log[i].root \in GitStages}

Count(messages, message) ==
  Cardinality({i \in 1..Len(messages) : messages[i] = message})

GitWarning == <<"Warning: Git initialization failed">>

Succeeded ==
  /\ Count(printed, <<"Template generated successfully!">>) = 1
  /\ Count(printed, <<"Next steps:">>) = 1

\* C21: when a command of initializeGit fails, no command is run after it,
\* the warning 'Warning: Git initialization failed' is printed exactly once,
\* nothing is thrown into create and the process does not exit with code 1;
\* when create returns, the success has been reported. Without a failed git
\* command there is no warning.
C21_GitNeverRejects ==
  /\ Count(printed, GitWarning) = Cardinality(GitRejections)
  /\ \A i \in GitRejections :
       /\ i = Len(log)
       /\ Count(printed, GitWarning) = 1
       /\ error = NoError
       /\ pc \in {"gitDone", "done"}
       /\ exit # <<1>>
       /\ pc = "done" => Succeeded /\ exit = <<0>>

\* C21 happens: git add failed, git commit was not run, and create has
\* reported the success.
C21_Witness ==
  /\ pc = "done"
  /\ GitRejections # {}
  /\ log[Len(log)].root = "gitAdd"
  /\ Succeeded

(***************************************************************************)
(* runCommand and installDependencies on their own.                        *)
(***************************************************************************)

\* args.join(" ")
RECURSIVE Join(_)
Join(args) ==
  IF args = <<>> THEN <<>>
  ELSE IF Len(args) = 1 THEN Head(args)
  ELSE Head(args) \o <<" ">> \o Join(Tail(args))

\* buildCommand(command, args) on the platform given.
buildCommand(command, args, platform) ==
  IF platform = "win32"
  THEN [command |-> <<"cmd.exe">>, args |-> <<<<"/c">>, command>> \o args]
  ELSE [command |-> command, args |-> args]

installDependenciesAsGiven(targetPath, packageManager) ==
  [command |-> JsString(packageManager), args |-> <<<<"install">>>>,
   cwd |-> targetPath]

\* The call of runCommand that installDependencies(targetPath,
\* packageManager) makes: its switch, the default being npm.
installDependencies(targetPath, packageManager) ==
  [command |-> IF packageManager \in {<<"yarn">>, <<"pnpm">>, <<"bun">>}
               THEN packageManager ELSE <<"npm">>,
   args |-> <<<<"install">>>>,
   cwd |-> targetPath]

\* The most a child exits with.
MaxExitCode == 1

\* What 'close' passes as code: the exit code, or null when a signal ended
\* the child.
ExitCodes ==
  [exited : {TRUE}, code : 0..MaxExitCode] \cup {[exited |-> FALSE, code |-> 0]}

\* `${code}`
CodeString(code) ==
  IF code.exited
  THEN <<<<"0", "1", "2", "3", "4", "5", "6", "7", "8", "9">>[code.code + 1]>>
  ELSE <<"null">>

\* The Error of the close handler of runCommand.
runCommandErrorNoArgs(command, args, code) ==
  command \o <<" failed with code ">> \o CodeString(code)

runCommandError(command, args, code) ==
  Join(<<command>> \o args) \o <<" failed with code ">> \o CodeString(code)

\* resolve() and reject(e) of a promise: a promise that is settled stays as
\* it is.
SettleLast(promise, ok, e) ==
  [done |-> TRUE, ok |-> ok, out |-> <<>>, error |-> e]

Settle(promise, ok, e) ==
  IF promise.done THEN promise
  ELSE [done |-> TRUE, ok |-> ok, out |-> <<>>, error |-> e]

Platforms == {"linux", "win32"}

\* The errors a child emits with 'error'.
SpawnErrors == {<<"ENOENT">>, <<"EACCES">>}

\* The calls drawn: runCommand as isNpxPresent and initializeGit call it, and
\* installDependencies with a package manager of the choices or not of them.
CommandCalls ==
  [kind : {"runCommand"}, platform : Platforms, packageManager : {UNDEFINED},
   command : {<<"npx">>}, args : {<<<<"--help">>>>}, cwd : {UNDEFINED}]
    \cup [kind : {"runCommand"}, platform : Platforms,
          packageManager : {UNDEFINED}, command : {<<"git">>},
          args : {<<<<"init">>>>,
                  <<<<"commit">>, <<"-m">>, <<"\"Initial commit\"">>>>},
          cwd : {<<"t">>}]
    \cup [kind : {"installDependencies"}, platform : Platforms,
          packageManager : {<<"npm">>, <<"yarn">>, <<"pnpm">>, <<"bun">>,
                            <<"pip">>, UNDEFINED},
          command : {UNDEFINED}, args : {<<>>}, cwd : {<<"t">>}]

\* The call of runCommand the call drawn comes to.
RunCommandCall ==
  IF renderIn.kind = "installDependencies"
  THEN installDependencies(renderIn.cwd, renderIn.packageManager)
  ELSE [command |-> renderIn.command, args |-> renderIn.args,
        cwd |-> renderIn.cwd]

InitCommands ==
  /\ IdleCreate
  /\ renderIn \in CommandCalls
  /\ renderOut = NotRendered
  /\ tplCommon = NoTree
  /\ tplSpecific = NoTree
  /\ fs = NoTree
  /\ projectOptions = BaseOptions
  /\ pc = "called"
  /\ stack = <<>>
  /\ log = <<>>
  /\ error = NoError

\* runCommand: spawn(cmd, cmdArgs, { cwd, stdio, shell: true }), and the
\* promise is returned pending.
RunCommand ==
  /\ pc = "called"
  /\ LET call == RunCommandCall
         built == buildCommand(call.command, call.args, renderIn.platform)
     IN  /\ child' = Join(<<built.command>> \o built.args)
         /\ log' = Append(log, Event("spawn", "child", child', call.cwd))
  /\ pc' = "spawned"
  /\ UNCHANGED <<renderVars, tplCommon, tplSpecific, fs, projectOptions, stack,
                 error, argv, answers, asked, printed, exit>>

Emitted(op) == \E i \in 1..Len(log) : log[i].op = op

\* The child emits 'close': the close handler resolves or rejects.
ChildClose ==
  /\ pc = "spawned"
  /\ ~Emitted("close")
  /\ \E code \in ExitCodes :
       /\ log' = Append(log, Event("close", "child", CodeString(code), <<>>))
       /\ renderOut' =
            IF code.exited /\ code.code = 0
            THEN Settle(renderOut, TRUE, <<>>)
            ELSE Settle(renderOut, FALSE,
                        runCommandError(RunCommandCall.command,
                                        RunCommandCall.args, code))
  /\ UNCHANGED <<renderIn, tplCommon, tplSpecific, fs, projectOptions, pc,
                 stack, error, createVars>>

\* The child emits 'error': the error handler is reject.
ChildError ==
  /\ pc = "spawned"
  /\ ~Emitted("error")
  /\ \E e \in SpawnErrors :
       /\ log' = Append(log, Event("error", "child", e, <<>>))
       /\ renderOut' = Settle(renderOut, FALSE, e)
  /\ UNCHANGED <<renderIn, tplCommon, tplSpecific, fs, projectOptions, pc,
                 stack, error, createVars>>

NextCommands ==
  \/ RunCommand
  \/ ChildClose
  \/ ChildError

SpecCommands == InitCommands /\ [][NextCommands]_vars

(***************************************************************************)
(* C22: the command of installDependencies.                                *)
(***************************************************************************)

Spawns == {i \in 1..Len(log) : log[i].op = "spawn"}

\* The command line the claim names for a package manager.
InstallLine(packageManager) ==
  IF packageManager \in {<<"yarn">>, <<"pnpm">>, <<"bun">>}
  THEN packageManager \o <<" ", "install">>
  ELSE <<"npm", " ", "install">>

\* What the shell is given on the platform of the call.
ShellLine(line) ==
  IF renderIn.platform = "win32"
  THEN <<"cmd.exe", " ", "/c", " ">> \o line
  ELSE line

\* The first event the child has emitted, once it has emitted one.
FirstEvent == log[2]

\* C22: installDependencies(targetPath, pm) runs one command, '<pm> install'
\* for yarn, pnpm and bun and 'npm install' for npm and every other value,
\* in targetPath; it resolves when the command closes with code 0, and it
\* rejects with the error of the command when it does not.
C22_InstallCommand ==
  renderIn.kind = "installDependencies" /\ pc = "spawned" =>
    /\ Spawns = {1}
    /\ log[1].src = ShellLine(InstallLine(renderIn.packageManager))
    /\ log[1].dst = renderIn.cwd
    /\ InstallCommand(renderIn.packageManager)
         = InstallLine(renderIn.packageManager)
    /\ renderOut.done <=> Len(log) > 1
    /\ renderOut.done =>
         /\ renderOut.ok <=> FirstEvent.op = "close" /\ FirstEvent.src = <<"0">>
         /\ ~renderOut.ok /\ FirstEvent.op = "close" =>
              renderOut.error =
                InstallLine(renderIn.packageManager)
                  \o <<" failed with code ">> \o FirstEvent.src
         /\ FirstEvent.op = "error" => renderOut.error = FirstEvent.src

\* C22 happens: a package manager that is not of the choices was given, npm
\* install was run, and it failed.
C22_Witness ==
  /\ renderIn.kind = "installDependencies"
  /\ renderIn.packageManager = <<"pip">>
  /\ renderOut.done
  /\ renderOut.error = <<"npm", " ", "install", " failed with code ", "1">>

(***************************************************************************)
(* C23: how runCommand settles.                                            *)
(***************************************************************************)

\* '<command> <args joined by spaces>' of the call the caller made.
CallerLine ==
  IF renderIn.kind = "installDependencies"
  THEN InstallLine(renderIn.packageManager)
  ELSE Join(<<renderIn.command>> \o renderIn.args)

Closes(codes) ==
  {i \in 1..Len(log) : log[i].op = "close" /\ log[i].src \in codes}

Errors == {i \in 1..Len(log) : log[i].op = "error"}

\* C23: the first event the child emits decides. runCommand resolves if and
\* only if that event is 'close' with code 0; if it is 'close' with another
\* code, runCommand rejects with '<command> <args joined by spaces> failed
\* with code <code>', of the command and the args of the caller, also on
\* win32; if it is 'error', runCommand rejects with that error.
C23_FirstEventDecides ==
  pc = "spawned" =>
    /\ renderOut.done <=> Len(log) > 1
    /\ renderOut.done =>
         /\ renderOut.ok <=> 2 \in Closes({<<"0">>})
         /\ 2 \in Closes({<<"1">>, <<"2">>, <<"null">>}) =>
              /\ ~renderOut.ok
              /\ renderOut.error =
                   CallerLine \o <<" failed with code ">> \o FirstEvent.src
         /\ 2 \in Errors => ~renderOut.ok /\ renderOut.error = FirstEvent.src

\* C23 happens: on win32, git commit closed with code 1 before any other
\* event, and the message names git commit with its arguments.
C23_Witness ==
  /\ renderIn.platform = "win32"
  /\ log # <<>>
  /\ StartsWith(log[1].src, <<"cmd.exe">>)
  /\ 2 \in Closes({<<"1">>})
  /\ renderOut.error =
       <<"git", " ", "commit", " ", "-m", " ", "\"Initial commit\"",
         " failed with code ", "1">>

\* C23 as it is stated, whatever the order of the events: resolved if and
\* only if the child has closed with code 0, rejected with the message when
\* it has closed with another code, rejected with the error when it has
\* emitted 'error'.
C23_CloseCodeDecides ==
  pc = "spawned" /\ renderOut.done =>
    /\ renderOut.ok <=> Closes({<<"0">>}) # {}
    /\ \A i \in Closes({<<"1">>, <<"2">>, <<"null">>}) :
         /\ ~renderOut.ok
         /\ renderOut.error =
              CallerLine \o <<" failed with code ">> \o log[i].src
    /\ \A i \in Errors : ~renderOut.ok /\ renderOut.error = log[i].src

(***************************************************************************)
(* C29: the promise of runCommand is settled once.                         *)
(***************************************************************************)

\* The first event settled the promise, whatever follows it.
SettledByFirst ==
  pc = "spawned" /\ Len(log) > 2 =>
    /\ 2 \in Errors =>
         /\ renderOut.done
         /\ ~renderOut.ok
         /\ renderOut.error = log[2].src
    /\ 2 \in Closes({<<"0">>}) => renderOut.done /\ renderOut.ok

\* C29: in every order of 'error' and 'close', the promise of runCommand is
\* settled by the first of them and never changes afterwards: rejected with
\* the error when 'error' comes first, also when the child then closes with
\* code 0, and resolved when 'close' with code 0 comes first, also when
\* 'error' follows.
C29_SettledOnce ==
  /\ []SettledByFirst
  /\ [][renderOut.done => renderOut' = renderOut]_vars

\* C29 happens: the child emitted 'error' and then closed with code 0, and
\* the promise is rejected with the error.
C29_Witness ==
  /\ Len(log) = 3
  /\ 2 \in Errors
  /\ 3 \in Closes({<<"0">>})
  /\ renderOut.done
  /\ ~renderOut.ok
  /\ renderOut.error = log[2].src

(***************************************************************************)
(* C24: isNpxPresent.                                                      *)
(***************************************************************************)

NpxFound == StageEvents("resolved", "isNpxPresent") # {}

\* C24: when npx --help succeeds isNpxPresent resolves and create goes on,
\* printing nothing about npx. When it rejects with an error whose code is
\* ENOENT, "Couldn't find npx!" is printed and the process exits with code
\* 1; when it rejects with anything else, null included, that value is
\* thrown again. In both cases no question is asked, nothing is created or
\* written, and no other command is run.
C24_IsNpxPresent ==
  /\ pc \in {"validateArgs", "prompts"} => NpxFound /\ printed = <<>>
  /\ asked # <<>> \/ LogOps({"mkdir", "write"}) # {} => NpxFound
  /\ \A i \in StageEvents("rejected", "isNpxPresent") :
       /\ i = Len(log)
       /\ ~NpxFound
       /\ LogOps({"spawn"}) = {i - 1}
       /\ pc = "exited"
       /\ exit = <<1>>
       /\ answers = NoArgv
       /\ IF log[i].dst = ErrorWithCode("ENOENT")
          THEN printed = <<<<"Couldn't find npx!">>>> /\ error = NoError
          ELSE /\ error = log[i].dst
               /\ Count(printed, <<"Couldn't find npx!">>) = 0

\* C24 happens: npx --help rejected with null, and null was thrown again.
C24_Witness ==
  /\ StageEvents("rejected", "isNpxPresent") # {}
  /\ log[Len(log)].dst = NULL
  /\ error = NULL
  /\ exit = <<1>>

(***************************************************************************)
(* scripts/package-manager.cjs: prepare and restore of package.json.       *)
(*                                                                         *)
(* The text of a JSON file is its layout (the indentation, and whether a   *)
(* newline ends it) and the value it parses to. An object is a function of *)
(* the fields of the model; a field the object does not have is UNDEFINED. *)
(* The scripts of an object are the names of its scripts, in order.        *)
(***************************************************************************)

ESSENTIAL_FIELDS ==
  {"name", "version", "description", "keywords", "homepage", "bugs",
   "repository", "license", "author", "contributors", "exports", "main",
   "module", "types", "bin", "files", "dependencies", "peerDependencies",
   "peerDependenciesMeta", "bundledDependencies", "optionalDependencies",
   "publishConfig", "engines", "os", "cpu"}

ESSENTIAL_SCRIPTS == {"install", "preinstall", "postinstall"}

\* The fields an object of the model can have.
PackageFields ==
  {"name", "version", "description", "devDependencies", "scripts"}

EmptyObject == [f \in PackageFields |-> UNDEFINED]

\* A file that does not exist.
Missing ==
  [exists |-> FALSE, valid |-> FALSE, indent |-> 0, newline |-> FALSE,
   value |-> EmptyObject]

\* JSON.parse(text) of a text that is valid JSON.
JsonParse(text) == text.value

\* JSON.stringify(value, null, 2): two spaces of indentation, and no newline
\* at the end.
JsonStringify(value) ==
  [exists |-> TRUE, valid |-> TRUE, indent |-> 2, newline |-> FALSE,
   value |-> value]

\* !v of a string, undefined or null.
Falsy(v) == v \in {UNDEFINED, NULL, <<>>}

\* createMinimalPackage(originalPackage)
createMinimalPackage(o) ==
  LET essentialScripts ==
        IF Falsy(o["scripts"]) THEN <<>>
        ELSE SelectSeq(o["scripts"], LAMBDA s : s \in ESSENTIAL_SCRIPTS)
  IN  [f \in PackageFields |->
         IF f = "scripts"
         THEN IF essentialScripts = <<>> THEN UNDEFINED ELSE essentialScripts
         ELSE IF f \in ESSENTIAL_FIELDS /\ o[f] \notin {UNDEFINED, NULL}
         THEN o[f]
         ELSE UNDEFINED]

\* A run of the script: the files it leaves, and its exit code.
Ran(files, code) == [files |-> files, exit |-> code]

\* prepareForPublishing() on the files given. A backup that exists is
\* written over after a warning.
prepareForPublishing(files) ==
  IF ~files.package.exists \/ ~files.package.valid THEN Ran(files, 1)
  ELSE LET originalPackage == JsonParse(files.package)
       IN  IF \/ Falsy(originalPackage["name"])
              \/ Falsy(originalPackage["version"])
           THEN Ran(files, 1)
           ELSE Ran([package |->
                       JsonStringify(createMinimalPackage(originalPackage)),
                     backup |-> JsonStringify(originalPackage)], 0)

\* restoreFromBackup() on the files given.
restoreFromBackup(files) ==
  IF ~files.package.exists \/ ~files.backup.exists \/ ~files.backup.valid
  THEN Ran(files, 1)
  ELSE Ran([package |-> JsonStringify(JsonParse(files.backup)),
            backup |-> Missing], 0)

\* The most runs of the script in a row.
MaxRuns == 3

\* The objects package.json is drawn from.
PackageValues ==
  {o \in [PackageFields -> {UNDEFINED, NULL, <<>>, <<"v">>, <<"build">>,
                            <<"build", "postinstall">>}] :
     /\ o["name"] \in {UNDEFINED, <<>>, <<"v">>}
     /\ o["version"] \in {UNDEFINED, <<"v">>}
     /\ o["description"] \in {UNDEFINED, NULL, <<"v">>}
     /\ o["devDependencies"] \in {UNDEFINED, <<"v">>}
     /\ o["scripts"] \in {UNDEFINED, <<"build">>, <<"build", "postinstall">>}}

\* The package.json the script is started on: not there, not JSON, or an
\* object in a layout an editor or a package manager writes.
PackageTexts ==
  {Missing, [Missing EXCEPT !.exists = TRUE]}
    \cup [exists : {TRUE}, valid : {TRUE}, indent : {2, 4}, newline : BOOLEAN,
          value : PackageValues]

InitPublish ==
  /\ IdleCreate
  /\ renderIn \in [kind : {"package-manager"}, text : PackageTexts]
  /\ renderOut = NotRendered
  /\ tplCommon = NoTree
  /\ tplSpecific = NoTree
  /\ fs = [package |-> renderIn.text, backup |-> Missing]
  /\ projectOptions = BaseOptions
  /\ pc = "shell"
  /\ stack = <<>>
  /\ log = <<>>
  /\ error = NoError

\* A run of the script has ended: the files are as it left them.
RunEnds(command, ran) ==
  /\ Len(log) < MaxRuns
  /\ fs' = ran.files
  /\ log' = Append(log, Event(command, IF ran.exit = 0 THEN "done" ELSE "exit",
                             <<>>, <<>>))
  /\ UNCHANGED <<renderVars, tplCommon, tplSpecific, projectOptions, pc, stack,
                 error, createVars>>

\* node scripts/package-manager.cjs
RunPrepare == pc = "shell" /\ RunEnds("prepare", prepareForPublishing(fs))

\* node scripts/package-manager.cjs restore
RunRestore == pc = "shell" /\ RunEnds("restore", restoreFromBackup(fs))

NextPublish ==
  \/ RunPrepare
  \/ RunRestore

SpecPublish == InitPublish /\ [][NextPublish]_vars

(***************************************************************************)
(* C25: prepare and then restore.                                          *)
(***************************************************************************)

Ok(command) == Event(command, "done", <<>>, <<>>)

\* The package.json the script was started on has a name and a version.
Publishable ==
  /\ renderIn.text.valid
  /\ ~Falsy(renderIn.text.value["name"])
  /\ ~Falsy(renderIn.text.value["version"])

OnlyEssential(o) ==
  \A f \in PackageFields :
    o[f] # UNDEFINED =>
      /\ f \in ESSENTIAL_FIELDS \cup {"scripts"}
      /\ f = "scripts" => \A i \in 1..Len(o[f]) : o[f][i] \in ESSENTIAL_SCRIPTS

\* C25: from a package.json with a name and a version and no backup, after
\* prepare the file package.json holds only essential fields and
\* package.json.backup holds the original, and after prepare and then
\* restore package.json has exactly its original content and there is no
\* package.json.backup.
C25_RoundTrip ==
  Publishable =>
    /\ log = <<Ok("prepare")>> =>
         /\ fs.package.valid
         /\ OnlyEssential(JsonParse(fs.package))
         /\ fs.backup = renderIn.text
    /\ log = <<Ok("prepare"), Ok("restore")>> =>
         /\ fs.package = renderIn.text
         /\ ~fs.backup.exists

(***************************************************************************)
(* C26: the backup holds the original.                                     *)
(***************************************************************************)

\* C26: after any runs of prepare and restore, a package.json.backup that
\* exists holds the object package.json held before the first prepare, and
\* a restore that succeeds leaves that object in package.json.
C26_BackupIsOriginal ==
  /\ fs.backup.exists =>
       /\ fs.backup.valid
       /\ JsonParse(fs.backup) = JsonParse(renderIn.text)
  /\ log # <<>> /\ log[Len(log)] = Ok("restore") =>
       /\ fs.package.valid
       /\ JsonParse(fs.package) = JsonParse(renderIn.text)

(***************************************************************************)
(* C27: installDependencies rejects.                                       *)
(***************************************************************************)

InstallRejections == StageEvents("rejected", "installDependencies")

\* C27: when installDependencies has rejected, no command of initializeGit
\* is ever run and the success is never reported; the failure is printed
\* with the error of the command and the process exits with code 1; the
\* target directory and the files generated in it stay.
C27_InstallFailureAborts ==
  \A i \in InstallRejections :
    /\ i = Len(log)
    /\ \A j \in LogOps({"spawn"}) : log[j].root \notin GitStages
    /\ Count(printed, <<"Template generated successfully!">>) = 0
    /\ pc \in {"thrown", "exited"}
    /\ error = log[i].src \o <<" failed with code ">>
    /\ pc = "exited" =>
         /\ exit = <<1>>
         /\ printed = <<<<"Failed to generate template">>, <<"Error:">> \o error>>
    /\ existsSync(fs, <<>>)
    /\ Files(fs) = {log[w].dst : w \in Writes}

\* C27 happens: npm install failed after files were generated, the process
\* has exited with code 1, and the files are there.
C27_Witness ==
  /\ InstallRejections # {}
  /\ pc = "exited"
  /\ exit = <<1>>
  /\ Files(fs) # {}

(***************************************************************************)
(* C30: a prompt is cancelled.                                             *)
(***************************************************************************)

\* C30: when the user cancels a prompt the process exits with code 1; the
\* target directory is not created, no file is written, and no command of
\* installDependencies or initializeGit is run.
C30_CancelExits ==
  \A i \in LogOps({"cancel"}) :
    /\ i = Len(log)
    /\ pc = "exited"
    /\ exit = <<1>>
    /\ fs = NoTree
    /\ LogOps({"mkdir", "write", "readdir"}) = {}
    /\ LogOps({"spawn"}) = StageEvents("spawn", "isNpxPresent")
    /\ Count(printed, <<"Template generated successfully!">>) = 0

\* C30 happens: the second question shown was cancelled, after the first
\* was answered.
C30_Witness ==
  /\ LogOps({"cancel"}) # {}
  /\ Len(asked) = 2
  /\ exit = <<1>>

(***************************************************************************)
(* C28: success, or exit with code 1.                                      *)
(***************************************************************************)

\* Every await of create is on the user or on a child process, which are
\* taken to answer and to settle; what create does in between it does.
\* The runs start from the command lines that give the slug, the author
\* and the bundler, so that the questions left are few.
LiveCommandLines ==
  {args \in CommandLines :
     /\ args.slug = <<"a">>
     /\ args.authorName # UNDEFINED
     /\ args.authorEmail = <<"e", "@", "x">>
     /\ args.authorUrl # UNDEFINED
     /\ args.bundler = <<"rollup">>}

InitLive == Init /\ argv \in LiveCommandLines

SpecLive == InitLive /\ [][Next]_vars /\ WF_vars(Next)

GitReturned ==
  GitRejections # {} \/ StageEvents("resolved", "gitCommit") # {}

\* generateProject and installDependencies completed without error, and
\* initializeGit has returned.
Completed ==
  /\ LogOps({"throw"}) = {}
  /\ LogOps({"mkdir"}) # {}
  /\ StageEvents("resolved", "installDependencies") # {}
  /\ GitReturned

SuccessReported ==
  \E i \in 1..Len(printed) :
    printed[i] \in {<<"Template generated successfully!">>, <<"Next steps:">>}

\* C28: the success and the next steps are reported only when
\* generateProject and installDependencies completed without error and
\* initializeGit has returned, and then they are reported; every run comes
\* to the success or to exit code 1, and never to both.
C28_SuccessOrExit ==
  /\ [](SuccessReported => Completed /\ Succeeded /\ exit = <<0>>)
  /\ [](exit = <<1>> => ~SuccessReported /\ ~Completed)
  /\ Completed ~> Succeeded
  /\ <>[](Succeeded \/ exit = <<1>>)

\* C28 happens: a run completed with a failed git command, and reported the
\* success.
C28_Witness ==
  /\ Completed
  /\ GitRejections # {}
  /\ Succeeded
  /\ exit = <<0>>

====
